---- MODULE Spec2Model ----
(***************************************************************************)
(* A model of the photo management server (server.js): the users table,    *)
(* the file_uploads table, the uploads directory, the download_status      *)
(* ledger, the operation_logs table, and the request handlers that read    *)
(* and write them.  A handler that awaits the database between its check   *)
(* and its write is modelled as two steps, so that other requests may      *)
(* interleave where the event loop lets them.                              *)
(***************************************************************************)
EXTENDS Integers, Sequences, FiniteSets, TLC

(* ------------------------------ bounds --------------------------------- *)
\* users the table may hold
MaxUsers == 3
\* rows operation_logs may gain after the initial state
MaxLogs == 3
\* the latest instant of the logical clock
MaxTime == 2
\* requests that may be in flight at once
MaxInFlight == 2
\* rows file_uploads may hold where remarks are edited
MaxAssets == 1
\* rows file_uploads may hold where photos are listed and downloaded
MaxPhotos == 2
\* files the uploads of small batches may leave in ./uploads
MaxStored == 3
\* rows download_status may gain after the initial state: a batch download
\* writes at most two rows for each photo
MaxLedger == 2 * MaxPhotos

(* -------------------------- program constants -------------------------- *)
\* the remarks edit cap (currentEditCount >= 10)
EditCap == 10
\* body('remarks').isLength({ max: 500 })
MaxRemarksLen == 500
\* the default limit of GET /api/uploads and of GET .../photos
UploadsDefaultLimit == 10

PhotosDefaultLimit == 20
\* the spans of the 'week' and 'month' time filters, in days
WeekDays == 7

MonthDays == 30

\* multer limits: files per request, and bytes per file
MaxFiles == 20

FileSizeLimit == 50 * 1024 * 1024
\* the handler's cap on the summed size of a request's images, in bytes
ImageTotalLimit == 50 * 1024 * 1024

\* SQL NULL in a text column, and in an integer or time column
NULL == "NULL"

NullInt == 0 - 1

VARIABLES
    users,      \* table users: row id -> [username, role, status, disable_reason, password]
    tokens,     \* ids of the users holding a signed, unexpired JWT
    assets,     \* table file_uploads: row id -> row
    disk,       \* file names present in ./uploads
    ledger,     \* table download_status, rows appended since the initial state
    logs,       \* table operation_logs, rows appended since the initial state
    inflight,   \* the requests awaiting a database or stream callback, oldest first
    resp,       \* the response sent last
    now         \* the clock read by new Date()

vars == <<users, tokens, assets, disk, ledger, logs, inflight, resp, now>>

(* ------------------------------ helpers -------------------------------- *)
NoResp == [op |-> "none", code |-> 0]

Slots == 1..MaxInFlight

UserIds == 1..Len(users)

AssetIds == 1..Len(assets)

\* bcrypt.hash / bcrypt.compare
Hash(p) == <<"bcrypt", p>>

Compare(p, h) == h = Hash(p)

\* SQLite compares a TEXT parameter with an INTEGER PRIMARY KEY by its numeric
\* value: the digits' decimal value, leading zeros included.
RECURSIVE DigitsValue(_)
DigitsValue(s) ==
    IF s = <<>> THEN 0
    ELSE 10 * DigitsValue(SubSeq(s, 1, Len(s) - 1)) + s[Len(s)]

\* the URL text of the bootstrap admin's id, as the handler compares it: '1'
AdminIdText == <<1>>

\* a log that keeps its newest entry in place of the one before
LogOperationReplacesLast(userId, operation) ==
    LET row == [user_id |-> userId, operation |-> operation] IN
    IF logs = <<>> THEN <<row>> ELSE [logs EXCEPT ![Len(logs)] = row]

\* logOperation: one INSERT into operation_logs
LogOperation(userId, operation) ==
    Append(logs, [user_id |-> userId, operation |-> operation])

\* every request in flight may still append a row to operation_logs
LogRoom == Len(logs) + Len(inflight) < MaxLogs

\* a new request joins the requests in flight at position s
Free(s) == s = Len(inflight) + 1 /\ s <= MaxInFlight

\* the request at position s awaits a callback of handler op
At(s, op) == s \in DOMAIN inflight /\ inflight[s].op = op

\* the requests in flight once the one at position s has answered
Without(s) ==
    [k \in 1..(Len(inflight) - 1) |-> IF k < s THEN inflight[k] ELSE inflight[k + 1]]

(* ------------------------------- users --------------------------------- *)
Passwords == {"pw1", "pw2"}

UserNames == {"admin", "ua", "ub", "uc"}

NewUser(username, password, role) ==
    [username |-> username, password |-> Hash(password), role |-> role,
     status |-> "active", disable_reason |-> NULL]

UserByName(username) ==
    {i \in UserIds : users[i].username = username}

\* POST /api/register
Register(username, password) ==
    /\ Len(users) < MaxUsers
    /\ LogRoom
    /\ IF UserByName(username) # {}
       THEN /\ resp' = [op |-> "register", code |-> 400]
            /\ UNCHANGED <<users, logs>>
       ELSE /\ users' = Append(users, NewUser(username, password, "customer"))
            /\ logs' = LogOperation(Len(users) + 1, "register")
            /\ resp' = [op |-> "register", code |-> 201, id |-> Len(users) + 1]
    /\ UNCHANGED <<tokens, assets, disk, ledger, inflight, now>>

\* POST /api/login
Login(username, password) ==
    /\ LogRoom
    /\ LET found == UserByName(username) IN
       IF found = {}
       THEN /\ resp' = [op |-> "login", code |-> 401]
            /\ UNCHANGED <<tokens, logs>>
       ELSE LET id == CHOOSE i \in found : TRUE IN
            IF users[id].status = "disabled"
            THEN /\ resp' = [op |-> "login", code |-> 401]
                 /\ UNCHANGED <<tokens, logs>>
            ELSE IF ~Compare(password, users[id].password)
            THEN /\ resp' = [op |-> "login", code |-> 401]
                 /\ logs' = LogOperation(id, "login_failed")
                 /\ UNCHANGED tokens
            ELSE /\ tokens' = tokens \cup {id}
                 /\ logs' = LogOperation(id, "login")
                 /\ resp' = [op |-> "login", code |-> 200, id |-> id]
    /\ UNCHANGED <<users, assets, disk, ledger, inflight, now>>

\* a logOperation that hands the failure of its INSERT to the caller
LogOperationThrowsOnFailure(written) == ~written

\* whether a call of logOperation throws or rejects when its INSERT was
\* written or not: db.run gets no callback and nothing is returned, so never
LogOperationThrows(written) == FALSE

\* logOperation whose INSERT is written, or fails
LogOperationOr(userId, operation, written) ==
    IF written THEN LogOperation(userId, operation) ELSE logs

\* the user names and passwords a change-password request may carry, and the
\* length of each: "x" and "pw" are too short, "" is empty
NameLen(n) == IF n = "x" THEN 1 ELSE 5

PasswordLen(p) == IF p = "" THEN 0 ELSE IF p = "pw" THEN 2 ELSE 6

\* body('username') 3-20 characters, body('oldPassword') not empty,
\* body('newPassword') at least 6 characters
ChangePasswordValid(username, oldPassword, newPassword) ==
    /\ NameLen(username) >= 3 /\ NameLen(username) <= 20
    /\ PasswordLen(oldPassword) > 0
    /\ PasswordLen(newPassword) >= 6

\* UPDATE users SET password = ? WHERE id = ?
PasswordUpdate(us, id, hashed) ==
    [us EXCEPT ![id] = [@ EXCEPT !.password = hashed]]

\* POST /api/change-password; written tells whether the INSERT of the
\* handler's logOperation call succeeds
ChangePassword(username, oldPassword, newPassword, written) ==
    /\ LogRoom
    /\ LET found == UserByName(username)
           R(code) == [op |-> "change_password", code |-> code, username |-> username]
           Caught(code) == IF LogOperationThrows(written) THEN 500 ELSE code
       IN
       IF ~ChangePasswordValid(username, oldPassword, newPassword)
       THEN resp' = R(400) /\ UNCHANGED <<users, logs>>
       ELSE IF found = {}
       THEN /\ logs' = LogOperationOr(NullInt, "change_password_failed", written)
            /\ resp' = R(Caught(401))
            /\ UNCHANGED users
       ELSE LET id == CHOOSE i \in found : TRUE IN
            IF ~Compare(oldPassword, users[id].password)
            THEN /\ logs' = LogOperationOr(id, "change_password_failed", written)
                 /\ resp' = R(Caught(401))
                 /\ UNCHANGED users
            ELSE IF Compare(newPassword, users[id].password)
            THEN resp' = R(400) /\ UNCHANGED <<users, logs>>
            ELSE /\ users' = PasswordUpdate(users, id, Hash(newPassword))
                 /\ logs' = LogOperationOr(id, "change_password_success", written)
                 /\ resp' = R(Caught(200))
    /\ UNCHANGED <<tokens, assets, disk, ledger, inflight, now>>

\* requireAdmin
RequireAdmin(caller) == users[caller].role \in {"admin", "sub_admin"}

\* a guard that lets a sub_admin reset any sub_admin
ResetRefusedAdminOnly(caller, id) ==
    users[caller].role = "sub_admin" /\ users[id].role = "admin"

\* req.user.role === 'sub_admin' && (user.role === 'admin' ||
\*   (user.role === 'sub_admin' && user.id !== req.user.id))
ResetRefused(caller, id) ==
    /\ users[caller].role = "sub_admin"
    /\ \/ users[id].role = "admin"
       \/ users[id].role = "sub_admin" /\ id # caller

\* POST /api/admin/reset-password; written tells whether the INSERT of the
\* handler's logOperation call succeeds
ResetPassword(caller, userId, newPassword, written) ==
    /\ caller \in tokens
    /\ LogRoom
    /\ LET R(code) == [op |-> "reset_password", code |-> code, caller |-> caller,
                       userId |-> userId]
           Caught(code) == IF LogOperationThrows(written) THEN 500 ELSE code
       IN
       IF userId < 1 \/ PasswordLen(newPassword) < 6
       THEN resp' = R(400) /\ UNCHANGED <<users, logs>>
       ELSE IF ~RequireAdmin(caller)
       THEN resp' = R(403) /\ UNCHANGED <<users, logs>>
       ELSE IF userId \notin UserIds
       THEN resp' = R(404) /\ UNCHANGED <<users, logs>>
       ELSE IF ResetRefused(caller, userId)
       THEN resp' = R(403) /\ UNCHANGED <<users, logs>>
       ELSE /\ users' = PasswordUpdate(users, userId, Hash(newPassword))
            /\ logs' = LogOperationOr(caller, "reset_password", written)
            /\ resp' = R(Caught(200))
    /\ UNCHANGED <<tokens, assets, disk, ledger, inflight, now>>

\* a validator that lets an admin role through
CreatableRoleWithAdmin(role) ==
    role \in {"customer", "merchant", "sub_admin", "admin"}

\* body('role').isIn(['customer', 'merchant', 'sub_admin'])
CreatableRole(role) == role \in {"customer", "merchant", "sub_admin"}

\* POST /api/admin/users
CreateUser(caller, username, password, role) ==
    /\ caller \in tokens
    /\ Len(users) < MaxUsers
    /\ LogRoom
    /\ IF ~RequireAdmin(caller)
       THEN /\ resp' = [op |-> "create_user", code |-> 403]
            /\ UNCHANGED <<users, logs>>
       ELSE IF ~CreatableRole(role)
       THEN /\ resp' = [op |-> "create_user", code |-> 400]
            /\ UNCHANGED <<users, logs>>
       ELSE IF role = "sub_admin" /\ users[caller].role # "admin"
       THEN /\ resp' = [op |-> "create_user", code |-> 403]
            /\ UNCHANGED <<users, logs>>
       ELSE IF users[caller].role = "sub_admin" /\ role \in {"admin", "sub_admin"}
       THEN /\ resp' = [op |-> "create_user", code |-> 403]
            /\ UNCHANGED <<users, logs>>
       ELSE IF UserByName(username) # {}
       THEN /\ resp' = [op |-> "create_user", code |-> 400]
            /\ UNCHANGED <<users, logs>>
       ELSE /\ users' = Append(users, NewUser(username, password, role))
            /\ logs' = LogOperation(caller, "create_user")
            /\ resp' = [op |-> "create_user", code |-> 201, id |-> Len(users) + 1]
    /\ UNCHANGED <<tokens, assets, disk, ledger, inflight, now>>

\* the texts a caller may put in the URL for a user id: '0'..'9' and '0d'
IdTexts ==
    {<<d>> : d \in 0..(MaxUsers + 1)} \cup {<<0, d>> : d \in 1..MaxUsers}

\* the reasons a request body may carry: absent, the empty string, a text
Reasons == {NULL, "", "spam"}

\* !reason
ReasonMissing(reason) == reason = NULL \/ reason = ""

\* a status update that leaves the stored reason alone when enabling
StatusUpdateKeepsReason(us, id, status, reason) ==
    [us EXCEPT ![id] = [@ EXCEPT !.status = status,
                                 !.disable_reason =
                                     IF status = "disabled" THEN reason ELSE @]]

\* UPDATE users SET status = ?, disable_reason = ? | NULL WHERE id = ?
StatusUpdate(us, id, status, reason) ==
    [us EXCEPT ![id] = [@ EXCEPT !.status = status,
                                 !.disable_reason =
                                     IF status = "disabled" THEN reason ELSE NULL]]

\* the handler's guard against disabling the bootstrap admin: id === '1'
IsAdminIdText(idText) == idText = AdminIdText

\* PATCH /api/admin/users/:id/status
SetUserStatus(caller, idText, status, reason) ==
    /\ caller \in tokens
    /\ LogRoom
    /\ LET id == DigitsValue(idText)
           R(code) == [op |-> "user_status", code |-> code, caller |-> caller,
                       idText |-> idText, status |-> status, reason |-> reason]
       IN
       IF ~RequireAdmin(caller)
       THEN /\ resp' = R(403)
            /\ UNCHANGED <<users, logs>>
       ELSE IF status \notin {"active", "disabled"} \/ reason = ""
       THEN /\ resp' = R(400)
            /\ UNCHANGED <<users, logs>>
       ELSE IF status = "disabled" /\ ReasonMissing(reason)
       THEN /\ resp' = R(400)
            /\ UNCHANGED <<users, logs>>
       ELSE IF IsAdminIdText(idText)
       THEN /\ resp' = R(403)
            /\ UNCHANGED <<users, logs>>
       ELSE IF id \notin UserIds
       THEN /\ resp' = R(404)
            /\ UNCHANGED <<users, logs>>
       ELSE /\ users' = StatusUpdate(users, id, status, reason)
            /\ logs' = LogOperation(caller, IF status = "disabled"
                                            THEN "disable_user" ELSE "enable_user")
            /\ resp' = R(200)
    /\ UNCHANGED <<tokens, assets, disk, ledger, inflight, now>>

(* ------------------------------- assets -------------------------------- *)
\* SELECT * FROM file_uploads WHERE id = ? AND user_id = ?
OwnedFile(id, caller) ==
    id \in AssetIds /\ assets[id].user_id = caller

\* COALESCE(edit_count, 0)
Coalesce(v, d) == IF v = NullInt THEN d ELSE v

\* the remarks a request body may carry, and the length of each
RemarkInputs == {"note", "long"}

RemarkLen(r) == IF r = "long" THEN MaxRemarksLen + 1 ELSE 4

\* an UPDATE that stamps upload_time as well as last_edit_time
RemarksUpdateRestamps(as, id, caller, remarks, updateTime) ==
    IF id \in DOMAIN as /\ as[id].user_id = caller
    THEN [as EXCEPT ![id] = [@ EXCEPT !.remarks = remarks,
                                      !.upload_time = updateTime,
                                      !.edit_count = Coalesce(@, 0) + 1,
                                      !.last_edit_time = updateTime]]
    ELSE as

\* UPDATE file_uploads SET remarks = ?, edit_count = COALESCE(edit_count, 0) + 1,
\*   last_edit_time = ? WHERE id = ? AND user_id = ?
RemarksUpdate(as, id, caller, remarks, updateTime) ==
    IF id \in DOMAIN as /\ as[id].user_id = caller
    THEN [as EXCEPT ![id] = [@ EXCEPT !.remarks = remarks,
                                      !.edit_count = Coalesce(@, 0) + 1,
                                      !.last_edit_time = updateTime]]
    ELSE as

\* a handler that never finds the cap reached
EditCapReachedNever(currentEditCount) == FALSE

\* currentEditCount >= 10
EditCapReached(currentEditCount) == currentEditCount >= EditCap

\* PUT /api/uploads/:id/remarks, up to the UPDATE it issues
EditStart(s, caller, id, remarks) ==
    /\ caller \in tokens
    /\ Free(s)
    /\ LogRoom
    /\ LET R(code) == [op |-> "edit", code |-> code, caller |-> caller, id |-> id] IN
       IF RemarkLen(remarks) > MaxRemarksLen
       THEN resp' = R(400) /\ UNCHANGED inflight
       ELSE IF ~OwnedFile(id, caller)
       THEN resp' = R(404) /\ UNCHANGED inflight
       ELSE IF assets[id].status = "deleted"
       THEN resp' = R(400) /\ UNCHANGED inflight
       ELSE IF EditCapReached(Coalesce(assets[id].edit_count, 0))
       THEN resp' = R(400) /\ UNCHANGED inflight
       ELSE /\ inflight' = Append(inflight,
                   [op |-> "edit", caller |-> caller, id |-> id, remarks |-> remarks,
                    currentEditCount |-> Coalesce(assets[id].edit_count, 0),
                    updateTime |-> now])
            /\ UNCHANGED resp
    /\ UNCHANGED <<users, tokens, assets, disk, ledger, logs, now>>

\* PUT /api/uploads/:id/remarks, the UPDATE and the response
EditCommit(s) ==
    /\ At(s, "edit")
    /\ LET q == inflight[s] IN
       /\ assets' = RemarksUpdate(assets, q.id, q.caller, q.remarks, q.updateTime)
       /\ logs' = LogOperation(q.caller, "edit_remarks")
       /\ resp' = [op |-> "edit", code |-> 200, caller |-> q.caller, id |-> q.id,
                   editCount |-> q.currentEditCount + 1,
                   remainingEdits |-> EditCap - (q.currentEditCount + 1)]
    /\ inflight' = Without(s)
    /\ UNCHANGED <<users, tokens, disk, ledger, now>>

\* a delete handler that never finds the file already deleted
AlreadyDeletedNever(file) == FALSE

\* file.status === 'deleted'
AlreadyDeleted(file) == file.status = "deleted"

\* file.status !== 'deleted'
NotDeleted(file) == file.status # "deleted"

\* a status update that also clears the remarks
StatusOnlyUpdateClears(as, id, caller, status) ==
    [as EXCEPT ![id] = [@ EXCEPT !.status = status, !.remarks = NULL]]

\* UPDATE file_uploads SET status = ? WHERE id = ? AND user_id = ?
FileStatusUpdate(as, id, caller, status) ==
    IF id \in DOMAIN as /\ as[id].user_id = caller
    THEN [as EXCEPT ![id] = [@ EXCEPT !.status = status]]
    ELSE as

\* DELETE /api/uploads/:id, up to the UPDATE it issues
DeleteStart(s, caller, id) ==
    /\ caller \in tokens
    /\ Free(s)
    /\ LogRoom
    /\ LET R(code) == [op |-> "delete", code |-> code, caller |-> caller, id |-> id] IN
       IF ~OwnedFile(id, caller)
       THEN resp' = R(404) /\ UNCHANGED inflight
       ELSE IF AlreadyDeleted(assets[id])
       THEN resp' = R(400) /\ UNCHANGED inflight
       ELSE /\ inflight' = Append(inflight,
                   [op |-> "delete", caller |-> caller, id |-> id])
            /\ UNCHANGED resp
    /\ UNCHANGED <<users, tokens, assets, disk, ledger, logs, now>>

\* DELETE /api/uploads/:id, the UPDATE and the response
DeleteCommit(s) ==
    /\ At(s, "delete")
    /\ LET q == inflight[s] IN
       /\ assets' = FileStatusUpdate(assets, q.id, q.caller, "deleted")
       /\ logs' = LogOperation(q.caller, "delete_file")
       /\ resp' = [op |-> "delete", code |-> 200, caller |-> q.caller, id |-> q.id]
    /\ inflight' = Without(s)
    /\ UNCHANGED <<users, tokens, disk, ledger, now>>

\* PUT /api/uploads/:id/restore, up to the UPDATE it issues
RestoreStart(s, caller, id) ==
    /\ caller \in tokens
    /\ Free(s)
    /\ LogRoom
    /\ LET R(code) == [op |-> "restore", code |-> code, caller |-> caller, id |-> id] IN
       IF ~OwnedFile(id, caller)
       THEN resp' = R(404) /\ UNCHANGED inflight
       ELSE IF NotDeleted(assets[id])
       THEN resp' = R(400) /\ UNCHANGED inflight
       ELSE /\ inflight' = Append(inflight,
                   [op |-> "restore", caller |-> caller, id |-> id])
            /\ UNCHANGED resp
    /\ UNCHANGED <<users, tokens, assets, disk, ledger, logs, now>>

\* PUT /api/uploads/:id/restore, the UPDATE and the response
RestoreCommit(s) ==
    /\ At(s, "restore")
    /\ LET q == inflight[s] IN
       /\ assets' = FileStatusUpdate(assets, q.id, q.caller, "active")
       /\ logs' = LogOperation(q.caller, "restore_file")
       /\ resp' = [op |-> "restore", code |-> 200, caller |-> q.caller, id |-> q.id]
    /\ inflight' = Without(s)
    /\ UNCHANGED <<users, tokens, disk, ledger, now>>

(* ------------------------------ downloads ------------------------------ *)
\* the ids of a set of rows as a sequence, in rowid order
RECURSIVE IdSeq(_)
IdSeq(S) ==
    IF S = {} THEN <<>>
    ELSE LET m == CHOOSE x \in S : \A y \in S : x <= y
         IN <<m>> \o IdSeq(S \ {m})

\* fs.existsSync(path.join(__dirname, 'uploads', photo.file_name))
ExistsSync(id) == assets[id].file_name \in disk

\* one row of download_status, as recordDownloadStatus inserts it
LedgerRow(fileId, merchantId, downloadType, status) ==
    [file_id |-> fileId, merchant_id |-> merchantId, download_type |-> downloadType,
     status |-> status, download_time |-> now]

\* recordDownloadStatus for each photo of a sequence, in order
RECURSIVE LedgerRows(_, _, _, _)
LedgerRows(ids, merchantId, downloadType, status) ==
    IF ids = <<>> THEN <<>>
    ELSE <<LedgerRow(Head(ids), merchantId, downloadType, status)>>
         \o LedgerRows(Tail(ids), merchantId, downloadType, status)

\* the rows a download may still write fit the ledger's bound
LedgerRoom ==
    /\ \A t \in DOMAIN inflight :
          inflight[t].op \notin {"download", "download_all", "download_selected"}
    /\ Len(ledger) + 2 * Len(assets) <= MaxLedger

\* SELECT * FROM file_uploads WHERE id = ? AND merchant_id = ? AND status = "active"
MerchantPhoto(id, merchantId) ==
    /\ id \in AssetIds
    /\ assets[id].merchant_id = merchantId
    /\ assets[id].status = "active"

\* PUT /api/merchant/photo/:photoId/status, up to the UPDATE it issues
StatusStart(s, caller, photoId, pstatus) ==
    /\ caller \in tokens
    /\ Free(s)
    /\ LogRoom
    /\ LET R(code) == [op |-> "set_status", code |-> code, caller |-> caller,
                       id |-> photoId] IN
       IF users[caller].role # "merchant"
       THEN resp' = R(403) /\ UNCHANGED inflight
       ELSE IF pstatus \notin {"received", "processing", "shipped"}
       THEN resp' = R(400) /\ UNCHANGED inflight
       ELSE IF ~MerchantPhoto(photoId, caller)
       THEN resp' = R(404) /\ UNCHANGED inflight
       ELSE /\ inflight' = Append(inflight,
                   [op |-> "set_status", caller |-> caller, id |-> photoId,
                    process_status |-> pstatus])
            /\ UNCHANGED resp
    /\ UNCHANGED <<users, tokens, assets, disk, ledger, logs, now>>

\* an UPDATE that moves process_status forward only
ProcessStatusUpdateForward(as, id, pstatus) ==
    LET rank(v) == IF v = "received" THEN 0 ELSE IF v = "processing" THEN 1 ELSE 2 IN
    IF id \in DOMAIN as /\ rank(as[id].process_status) < rank(pstatus)
    THEN [as EXCEPT ![id] = [@ EXCEPT !.process_status = pstatus]]
    ELSE as

\* UPDATE file_uploads SET process_status = ? WHERE id = ?
ProcessStatusUpdate(as, id, pstatus) ==
    IF id \in DOMAIN as
    THEN [as EXCEPT ![id] = [@ EXCEPT !.process_status = pstatus]]
    ELSE as

\* PUT /api/merchant/photo/:photoId/status, the UPDATE and the response
StatusCommit(s) ==
    /\ At(s, "set_status")
    /\ LET q == inflight[s] IN
       /\ assets' = ProcessStatusUpdate(assets, q.id, q.process_status)
       /\ logs' = LogOperation(q.caller, "update_photo_status")
       /\ resp' = [op |-> "set_status", code |-> 200, caller |-> q.caller, id |-> q.id]
    /\ inflight' = Without(s)
    /\ UNCHANGED <<users, tokens, disk, ledger, now>>

\* recordDownloadStatus whose INSERT is written, or fails (the failure is
\* printed by the callback and goes no further)
RecordOr(row, recorded) == IF recorded THEN Append(ledger, row) ELSE ledger

\* GET /api/merchant/photo/:photoId/download, up to res.sendFile; recorded
\* tells whether the INSERT of recordDownloadStatus succeeds
SingleStartOr(s, caller, photoId, recorded) ==
    /\ caller \in tokens
    /\ Free(s)
    /\ LogRoom
    /\ LedgerRoom
    /\ LET R(code, rows) == [op |-> "download", code |-> code, caller |-> caller,
                             id |-> photoId, written |-> rows] IN
       IF users[caller].role # "merchant"
       THEN resp' = R(403, <<>>) /\ UNCHANGED <<inflight, ledger>>
       ELSE IF ~MerchantPhoto(photoId, caller)
       THEN resp' = R(404, <<>>) /\ UNCHANGED <<inflight, ledger>>
       ELSE IF ~ExistsSync(photoId)
       THEN LET row == LedgerRow(photoId, caller, "single", "failed") IN
            /\ ledger' = RecordOr(row, recorded)
            /\ resp' = R(404, IF recorded THEN <<row>> ELSE <<>>)
            /\ UNCHANGED inflight
       ELSE /\ inflight' = Append(inflight,
                   [op |-> "download", caller |-> caller, id |-> photoId])
            /\ UNCHANGED <<resp, ledger>>
    /\ UNCHANGED <<users, tokens, assets, disk, logs, now>>

\* the same request when the INSERT succeeds
SingleStart(s, caller, photoId) == SingleStartOr(s, caller, photoId, TRUE)

\* GET /api/merchant/photo/:photoId/download, the callback of res.sendFile;
\* recorded and written tell whether the INSERTs of recordDownloadStatus and
\* of logOperation succeed
SingleDoneOr(s, sent, recorded, written) ==
    /\ At(s, "download")
    /\ LET q == inflight[s]
           row == LedgerRow(q.id, q.caller, "single", IF sent THEN "success" ELSE "failed")
       IN
       /\ ledger' = RecordOr(row, recorded)
       /\ logs' = IF sent THEN LogOperationOr(q.caller, "download_photo", written) ELSE logs
       /\ resp' = [op |-> "download", code |-> 200, caller |-> q.caller, id |-> q.id,
                   sent |-> sent, written |-> IF recorded THEN <<row>> ELSE <<>>]
    /\ inflight' = Without(s)
    /\ UNCHANGED <<users, tokens, assets, disk, now>>

\* the same callback when both INSERTs succeed
SingleDone(s, sent) == SingleDoneOr(s, sent, TRUE, TRUE)

\* a resolution that forgets the status condition
CustomerPhotosWithDeleted(customerId, merchantId) ==
    {i \in AssetIds : assets[i].user_id = customerId /\ assets[i].merchant_id = merchantId}

\* a resolution that forgets the merchant_id condition
CustomerPhotosAnyMerchant(customerId, merchantId) ==
    {i \in AssetIds : assets[i].user_id = customerId /\ assets[i].status = "active"}

\* SELECT * FROM file_uploads WHERE user_id = ? AND merchant_id = ? AND status = "active"
CustomerPhotos(customerId, merchantId) ==
    {i \in AssetIds : /\ assets[i].user_id = customerId
                      /\ assets[i].merchant_id = merchantId
                      /\ assets[i].status = "active"}

\* GET /api/merchant/customer/:customerId/download-all, the SELECT of the photos
DownloadAllStart(s, caller, customerId) ==
    /\ caller \in tokens
    /\ Free(s)
    /\ LogRoom
    /\ LedgerRoom
    /\ LET R(code) == [op |-> "download_all", code |-> code, caller |-> caller,
                       customerId |-> customerId, requested |-> {}, photos |-> <<>>,
                       added |-> {}, written |-> <<>>, zip |-> FALSE]
           photos == IdSeq(CustomerPhotos(customerId, caller))
       IN
       IF users[caller].role # "merchant"
       THEN resp' = R(403) /\ UNCHANGED inflight
       ELSE IF Len(photos) = 0
       THEN resp' = R(404) /\ UNCHANGED inflight
       ELSE /\ inflight' = Append(inflight,
                   [op |-> "download_all", pc |-> "resolved", caller |-> caller,
                    customerId |-> customerId, requested |-> {}, photos |-> photos,
                    added |-> {}, written |-> <<>>])
            /\ UNCHANGED resp
    /\ UNCHANGED <<users, tokens, assets, disk, ledger, logs, now>>

\* SELECT * FROM file_uploads WHERE id IN (...) AND user_id = ? AND merchant_id = ?
\*   AND status = "active"
SelectedPhotos(ids, customerId, merchantId) ==
    {i \in CustomerPhotos(customerId, merchantId) : i \in ids}

\* GET /api/merchant/customer/:customerId/download-selected, the SELECT of the photos
DownloadSelectedStart(s, caller, customerId, ids) ==
    /\ caller \in tokens
    /\ Free(s)
    /\ LogRoom
    /\ LedgerRoom
    /\ LET R(code) == [op |-> "download_selected", code |-> code, caller |-> caller,
                       customerId |-> customerId, requested |-> ids, photos |-> <<>>,
                       added |-> {}, written |-> <<>>, zip |-> FALSE]
           photos == IdSeq(SelectedPhotos(ids, customerId, caller))
       IN
       IF users[caller].role # "merchant"
       THEN resp' = R(403) /\ UNCHANGED inflight
       ELSE IF ids = {}
       THEN resp' = R(400) /\ UNCHANGED inflight
       ELSE IF Len(photos) = 0
       THEN resp' = R(404) /\ UNCHANGED inflight
       ELSE /\ inflight' = Append(inflight,
                   [op |-> "download_selected", pc |-> "resolved", caller |-> caller,
                    customerId |-> customerId, requested |-> ids, photos |-> photos,
                    added |-> {}, written |-> <<>>])
            /\ UNCHANGED resp
    /\ UNCHANGED <<users, tokens, assets, disk, ledger, logs, now>>

\* the members of a sequence that satisfy a test, in order
RECURSIVE SelectIds(_, _)
SelectIds(ids, S) ==
    IF ids = <<>> THEN <<>>
    ELSE (IF Head(ids) \in S THEN <<Head(ids)>> ELSE <<>>) \o SelectIds(Tail(ids), S)

Range(f) == {f[i] : i \in DOMAIN f}

\* an archive that is finalized even when nothing was added
ArchiveAbortedNever(addedCount) == FALSE

\* addedCount === 0: archive.destroy() and 404
ArchiveAborted(addedCount) == addedCount = 0

\* photos.length === 1: download-selected sends the one file without a ZIP
SinglePath(q) == q.op = "download_selected" /\ Len(q.photos) = 1

\* download-all and download-selected after the customer's name is read: the
\* single-file path of download-selected, or the forEach that fills the archive
BatchBuild(s, sent) ==
    /\ s \in DOMAIN inflight
    /\ inflight[s].op \in {"download_all", "download_selected"}
    /\ inflight[s].pc = "resolved"
    /\ LET q == inflight[s]
           present == {p \in Range(q.photos) : ExistsSync(p)}
           missing == SelectIds(q.photos, Range(q.photos) \ present)
           R(code, rows, zip) ==
               [op |-> q.op, code |-> code, caller |-> q.caller,
                customerId |-> q.customerId, requested |-> q.requested,
                photos |-> q.photos, added |-> present, written |-> rows, zip |-> zip]
       IN
       IF SinglePath(q)
       THEN IF present = {}
            THEN LET rows == LedgerRows(q.photos, q.caller, "single", "failed") IN
                 /\ ledger' = ledger \o rows
                 /\ resp' = R(404, rows, FALSE)
                 /\ inflight' = Without(s)
                 /\ UNCHANGED logs
            ELSE LET rows == LedgerRows(q.photos, q.caller, "single", "success") IN
                 /\ ledger' = ledger \o rows
                 /\ logs' = LogOperation(q.caller, "download")
                 /\ resp' = [R(200, rows, FALSE) EXCEPT !.added = IF sent THEN present ELSE {}]
                 /\ inflight' = Without(s)
       ELSE LET rows == LedgerRows(missing, q.caller, "batch", "failed") IN
            /\ sent
            /\ ledger' = ledger \o rows
            /\ UNCHANGED logs
            /\ IF ArchiveAborted(Cardinality(present))
               THEN /\ resp' = R(404, rows, TRUE)
                    /\ inflight' = Without(s)
               ELSE /\ inflight' = [inflight EXCEPT ![s] =
                           [q EXCEPT !.pc = "archiving", !.added = present,
                                     !.written = rows]]
                    /\ UNCHANGED resp
    /\ UNCHANGED <<users, tokens, assets, disk, now>>

\* handlers that record 'success' whatever the archive did
FinishStatusSuccess(outcome) == "success"

\* the status each handler passes to recordDownloadStatus: 'success' in
\* archive.on('end'), 'failed' in archive.on('error')
FinishStatus(outcome) == IF outcome = "end" THEN "success" ELSE "failed"

\* archive.on('end') and archive.on('error')
BatchFinish(s, outcome) ==
    /\ s \in DOMAIN inflight
    /\ inflight[s].op \in {"download_all", "download_selected"}
    /\ inflight[s].pc = "archiving"
    /\ LET q == inflight[s]
           rows == LedgerRows(q.photos, q.caller, "batch", FinishStatus(outcome))
       IN
       /\ ledger' = ledger \o rows
       /\ logs' = IF outcome = "end"
                  THEN LogOperation(q.caller, IF q.op = "download_all"
                                              THEN "batch_download"
                                              ELSE "batch_download_selected")
                  ELSE logs
       /\ resp' = [op |-> q.op, code |-> IF outcome = "end" THEN 200 ELSE 500,
                   caller |-> q.caller, customerId |-> q.customerId,
                   requested |-> q.requested, photos |-> q.photos,
                   added |-> IF outcome = "end" THEN q.added ELSE {},
                   written |-> q.written \o rows, zip |-> TRUE]
    /\ inflight' = Without(s)
    /\ UNCHANGED <<users, tokens, assets, disk, now>>

\* GET /uploads/:filename
UploadsFile(caller, filename) ==
    /\ caller \in tokens
    /\ LET rows == IF users[caller].role = "customer"
                   THEN {i \in AssetIds : assets[i].file_name = filename
                                          /\ assets[i].user_id = caller}
                   ELSE IF users[caller].role = "merchant"
                   THEN {i \in AssetIds : assets[i].file_name = filename
                                          /\ assets[i].merchant_id = caller}
                   ELSE {i \in AssetIds : assets[i].file_name = filename}
           R(code, served) == [op |-> "uploads_file", code |-> code, caller |-> caller,
                               filename |-> filename, served |-> served]
       IN
       IF filename \notin disk
       THEN resp' = R(404, {})
       ELSE IF rows = {}
       THEN resp' = R(403, {})
       ELSE resp' = R(200, rows)
    /\ UNCHANGED <<users, tokens, assets, disk, ledger, logs, inflight, now>>

(* ------------------------------- uploads ------------------------------- *)
\* U+FFFD, what toString('utf8') puts for a byte sequence that is not UTF-8
Replacement == 65533

\* the UTF-8 bytes of a name of code points below U+0800, as the browser
\* writes them into the multipart header
RECURSIVE Utf8Bytes(_)
Utf8Bytes(name) ==
    IF name = <<>> THEN <<>>
    ELSE LET cp == Head(name) IN
         (IF cp < 128 THEN <<cp>> ELSE <<192 + (cp \div 64), 128 + (cp % 64)>>)
         \o Utf8Bytes(Tail(name))

\* Buffer.from(file.originalname, 'latin1').toString('utf8'): file.originalname
\* holds one character per byte of the header; the bytes are decoded as UTF-8
RECURSIVE Latin1ToUtf8(_)
Latin1ToUtf8(bytes) ==
    IF bytes = <<>> THEN <<>>
    ELSE LET b == Head(bytes) IN
         IF b < 128 THEN <<b>> \o Latin1ToUtf8(Tail(bytes))
         ELSE IF /\ b >= 194 /\ b < 224 /\ Len(bytes) >= 2
                 /\ bytes[2] >= 128 /\ bytes[2] < 192
         THEN <<(b - 192) * 64 + (bytes[2] - 128)>> \o Latin1ToUtf8(Tail(Tail(bytes)))
         ELSE <<Replacement>> \o Latin1ToUtf8(Tail(bytes))

\* a file of a multipart request as multer hands it to fileFilter and the handler
ClientFile(name, mimetype, ext, size) ==
    [originalname |-> Utf8Bytes(name), mimetype |-> mimetype, ext |-> ext, size |-> size]

Jpg(name, size) == ClientFile(name, "image/jpeg", ".jpg", size)

Zip(name, size) == ClientFile(name, "application/zip", ".zip", size)

Txt(name, size) == ClientFile(name, "text/plain", ".txt", size)
\* a photo sent without its MIME type
RawJpg(name, size) == ClientFile(name, "application/octet-stream", ".jpg", size)

ImageTypes == {"image/jpeg", "image/jpg", "image/png", "image/gif", "image/webp"}

ArchiveTypes ==
    {"application/zip", "application/x-zip-compressed", "application/x-rar-compressed",
     "application/vnd.rar", "application/x-rar", "application/x-7z-compressed"}

ImageExtensions == {".jpg", ".jpeg", ".png", ".gif", ".webp"}

ArchiveExtensions == {".zip", ".rar", ".7z"}

\* fileFilter
FileFilter(file) ==
    \/ file.mimetype \in ImageTypes \cup ArchiveTypes
    \/ file.ext \in ImageExtensions \cup ArchiveExtensions

\* file.mimetype.startsWith('image/'), over the MIME types of the model
MimeIsImage(mimetype) == mimetype \in ImageTypes

\* isImage
IsImage(file) == MimeIsImage(file.mimetype) \/ file.ext \in ImageExtensions

\* totalImageSize
RECURSIVE TotalImageSize(_)
TotalImageSize(files) ==
    IF files = <<>> THEN 0
    ELSE (IF IsImage(Head(files)) THEN Head(files).size ELSE 0)
         + TotalImageSize(Tail(files))

\* the error multer passes to handleMulterError, if any: limits.files,
\* limits.fileSize, fileFilter
MulterError(files) ==
    IF Len(files) > MaxFiles THEN "LIMIT_FILE_COUNT"
    ELSE IF \E k \in DOMAIN files : files[k].size > FileSizeLimit THEN "LIMIT_FILE_SIZE"
    ELSE IF \E k \in DOMAIN files : ~FileFilter(files[k]) THEN "FILE_TYPE"
    ELSE "none"

\* storage.filename: a name no other file of ./uploads has
StoredAs(k, file) == <<"stored", Cardinality(disk) + k, Latin1ToUtf8(file.originalname)>>

\* req.files after multer wrote each file into ./uploads
Stored(files) ==
    [k \in DOMAIN files |->
        [originalname |-> files[k].originalname, mimetype |-> files[k].mimetype,
         ext |-> files[k].ext, size |-> files[k].size, filename |-> StoredAs(k, files[k])]]

\* SELECT id, username, status FROM users WHERE id = ? AND role = 'merchant'
MerchantRow(merchantId) ==
    {i \in UserIds : i = merchantId /\ users[i].role = "merchant"}

\* INSERT INTO file_uploads (user_id, merchant_id, original_name, file_name,
\*   file_path, file_size, file_type, mime_type, remarks, upload_time)
UploadRow(caller, merchantId, file, remarks, uploadTime) ==
    [user_id |-> caller, merchant_id |-> merchantId,
     original_name |-> Latin1ToUtf8(file.originalname),
     file_name |-> file.filename, file_path |-> <<"uploads", file.filename>>,
     file_size |-> file.size, file_type |-> IF IsImage(file) THEN "image" ELSE "archive",
     mime_type |-> file.mimetype, remarks |-> remarks, upload_time |-> uploadTime,
     status |-> "active", process_status |-> "received", edit_count |-> 0,
     last_edit_time |-> NullInt]

\* POST /api/upload: multer, the checks of the handler, up to the first INSERT
UploadStart(s, caller, merchantId, files) ==
    /\ caller \in tokens
    /\ Free(s)
    /\ LogRoom
    /\ LET R(code, error, kept) ==
               [op |-> "upload", code |-> code, error |-> error, caller |-> caller,
                merchantId |-> merchantId, kept |-> kept, ids |-> <<>>]
           written == {Stored(files)[k].filename : k \in DOMAIN files}
       IN
       IF MulterError(files) # "none"
       THEN resp' = R(400, MulterError(files), {}) /\ UNCHANGED <<inflight, disk>>
       ELSE /\ disk' = disk \cup written
            /\ IF merchantId = NullInt
               THEN resp' = R(400, "no_merchant", written) /\ UNCHANGED inflight
               ELSE IF Len(files) = 0
               THEN resp' = R(400, "no_files", written) /\ UNCHANGED inflight
               ELSE IF MerchantRow(merchantId) = {}
               THEN resp' = R(400, "unknown_merchant", written) /\ UNCHANGED inflight
               ELSE IF users[merchantId].status = "disabled"
               THEN resp' = R(400, "disabled_merchant", written) /\ UNCHANGED inflight
               ELSE IF TotalImageSize(files) > ImageTotalLimit
               THEN resp' = R(400, "images_too_large", written) /\ UNCHANGED inflight
               ELSE /\ inflight' = Append(inflight,
                           [op |-> "upload", caller |-> caller, merchantId |-> merchantId,
                            files |-> Stored(files), uploadTime |-> now, saved |-> <<>>])
                    /\ UNCHANGED resp
    /\ UNCHANGED <<users, tokens, assets, ledger, logs, now>>

\* a handler that takes back the rows it inserted when a later INSERT fails
AfterInsertFailureRollsBack(as, saved) ==
    SubSeq(as, 1, Len(as) - Len(saved))

\* file_uploads after reject(err) took the handler to its catch block: no
\* statement undoes the INSERTs that succeeded
AfterInsertFailure(as, saved) == as

\* POST /api/upload: one awaited INSERT, which succeeds or fails; after the
\* last, the audit entry and the response; after a failure, the catch block
UploadInsertOr(s, inserted) ==
    /\ At(s, "upload")
    /\ LET q == inflight[s]
           k == Len(q.saved) + 1
           saved == Append(q.saved, Len(assets) + 1)
           R(code, error, ids) ==
               [op |-> "upload", code |-> code, error |-> error,
                caller |-> q.caller, merchantId |-> q.merchantId,
                kept |-> {q.files[j].filename : j \in DOMAIN q.files},
                ids |-> ids]
       IN
       IF ~inserted
       THEN /\ assets' = AfterInsertFailure(assets, q.saved)
            /\ resp' = R(500, "upload_failed", q.saved)
            /\ inflight' = Without(s)
            /\ UNCHANGED logs
       ELSE /\ assets' = Append(assets, UploadRow(q.caller, q.merchantId, q.files[k],
                                                  NULL, q.uploadTime))
            /\ IF k = Len(q.files)
               THEN /\ logs' = LogOperation(q.caller, "upload")
                    /\ resp' = R(200, "none", saved)
                    /\ inflight' = Without(s)
               ELSE /\ inflight' = [inflight EXCEPT ![s] = [q EXCEPT !.saved = saved]]
                    /\ UNCHANGED <<logs, resp>>
    /\ UNCHANGED <<users, tokens, disk, ledger, now>>

\* POST /api/upload with every INSERT succeeding
UploadInsert(s) == UploadInsertOr(s, TRUE)

\* a duplicate query that forgets the merchant
DuplicateRowsAnyMerchant(caller, merchantId, fileNames) ==
    {i \in AssetIds : /\ assets[i].user_id = caller
                      /\ assets[i].original_name \in Range(fileNames)}

\* SELECT original_name FROM file_uploads
\*   WHERE user_id = ? AND merchant_id = ? AND original_name IN (...)
DuplicateRows(caller, merchantId, fileNames) ==
    {i \in AssetIds : /\ assets[i].user_id = caller
                      /\ assets[i].merchant_id = merchantId
                      /\ assets[i].original_name \in Range(fileNames)}

\* existingFiles.map(file => file.original_name)
RECURSIVE OriginalNames(_)
OriginalNames(ids) ==
    IF ids = <<>> THEN <<>>
    ELSE <<assets[Head(ids)].original_name>> \o OriginalNames(Tail(ids))

\* POST /api/check-duplicate-files
CheckDuplicates(caller, merchantId, fileNames) ==
    /\ caller \in tokens
    /\ LET R(code, dups) == [op |-> "check_duplicates", code |-> code, caller |-> caller,
                             merchantId |-> merchantId, fileNames |-> fileNames,
                             duplicateFiles |-> dups]
       IN
       IF users[caller].role # "customer"
       THEN resp' = R(403, <<>>)
       ELSE IF merchantId = NullInt
       THEN resp' = R(400, <<>>)
       ELSE resp' = R(200, OriginalNames(IdSeq(DuplicateRows(caller, merchantId, fileNames))))
    /\ UNCHANGED <<users, tokens, assets, disk, ledger, logs, inflight, now>>

(* -------------------------------- lists -------------------------------- *)
\* a numeric query parameter after parseInt: NaN, or an integer
NaN == [nan |-> TRUE, val |-> 0]

Num(v) == [nan |-> FALSE, val |-> v]

\* parseInt(x) || d
ParseIntOr(q, d) == IF q.nan \/ q.val = 0 THEN d ELSE q.val

\* LIMIT ? OFFSET ? as SQLite reads them: a negative LIMIT is no limit, a
\* negative OFFSET is 0
SqlPage(rows, limit, offset) ==
    LET off == IF offset < 0 THEN 0 ELSE offset
        last == IF limit < 0 \/ off + limit > Len(rows) THEN Len(rows) ELSE off + limit
    IN SubSeq(rows, off + 1, last)

\* Math.ceil(total / limitNum), limitNum # 0
CeilDiv(total, limit) ==
    IF limit > 0 THEN (total + limit - 1) \div limit
    ELSE 0 - (total \div (0 - limit))

NoFilter == [status |-> NULL, timeFilter |-> NULL, startDate |-> NullInt, endDate |-> NullInt]

\* the filters a list request may carry; dates are days of the logical clock
FilterInputs ==
    {NoFilter,
     [NoFilter EXCEPT !.status = "shipped"],
     [NoFilter EXCEPT !.status = "bogus"],
     [NoFilter EXCEPT !.timeFilter = "today"],
     [NoFilter EXCEPT !.timeFilter = "week"],
     [NoFilter EXCEPT !.timeFilter = "month"],
     [NoFilter EXCEPT !.timeFilter = "custom", !.startDate = 1, !.endDate = 1],
     [NoFilter EXCEPT !.timeFilter = "custom"]}

\* the status and time conditions pushed onto whereConditions
FilterMatch(row, f) ==
    /\ f.status \in {"received", "processing", "shipped"} => row.process_status = f.status
    /\ f.timeFilter = "today" => row.upload_time >= now
    /\ f.timeFilter = "week" => row.upload_time >= now - WeekDays
    /\ f.timeFilter = "month" => row.upload_time >= now - MonthDays
    /\ (f.timeFilter = "custom" /\ f.startDate # NullInt /\ f.endDate # NullInt) =>
           row.upload_time >= f.startDate /\ row.upload_time <= f.endDate

\* ORDER BY CASE WHEN status = 'deleted' THEN 1 ELSE 0 END, upload_time DESC
\* (rows that tie come in rowid order)
ListBefore(i, j) ==
    LET fi == IF assets[i].status = "deleted" THEN 1 ELSE 0
        fj == IF assets[j].status = "deleted" THEN 1 ELSE 0
    IN \/ fi < fj
       \/ fi = fj /\ assets[i].upload_time > assets[j].upload_time
       \/ fi = fj /\ assets[i].upload_time = assets[j].upload_time /\ i < j

Ordered(S) ==
    CHOOSE q \in [1..Cardinality(S) -> S] :
        \A a, b \in 1..Cardinality(S) : a < b => ListBefore(q[a], q[b])

\* a WHERE clause that drops the owner condition
UploadsWhereAll(caller, f) ==
    {i \in AssetIds : FilterMatch(assets[i], f)}

\* WHERE fu.user_id = ? [AND fu.process_status = ?] [AND fu.upload_time ...]
UploadsWhere(caller, f) ==
    {i \in AssetIds : assets[i].user_id = caller /\ FilterMatch(assets[i], f)}

\* GET /api/uploads
ListUploads(caller, page, limit, f) ==
    /\ caller \in tokens
    /\ LET pageNum == ParseIntOr(page, 1)
           limitNum == ParseIntOr(limit, UploadsDefaultLimit)
           offset == (pageNum - 1) * limitNum
           matching == UploadsWhere(caller, f)
       IN resp' = [op |-> "list_uploads", code |-> 200, caller |-> caller,
                   files |-> SqlPage(Ordered(matching), limitNum, offset),
                   page |-> pageNum, limit |-> limitNum,
                   total |-> Cardinality(matching),
                   pages |-> CeilDiv(Cardinality(matching), limitNum)]
    /\ UNCHANGED <<users, tokens, assets, disk, ledger, logs, inflight, now>>

\* LEFT JOIN download_status ds ON fu.id = ds.file_id AND ds.merchant_id = ?
\* for one row of file_uploads: a joined row per matching ledger row, or one
\* joined row with NULLs
JoinLedger(id, merchantId) ==
    LET hits == SelectSeq(ledger, LAMBDA r : r.file_id = id /\ r.merchant_id = merchantId)
    IN IF hits = <<>>
       THEN <<[id |-> id, download_status |-> NULL, last_download_time |-> NullInt]>>
       ELSE [k \in 1..Len(hits) |->
                [id |-> id, download_status |-> hits[k].status,
                 last_download_time |-> hits[k].download_time]]

RECURSIVE JoinAll(_, _)
JoinAll(ids, merchantId) ==
    IF ids = <<>> THEN <<>>
    ELSE JoinLedger(Head(ids), merchantId) \o JoinAll(Tail(ids), merchantId)

\* WHERE fu.user_id = ? AND fu.merchant_id = ? [AND ...]
PhotosWhere(customerId, merchantId, f) ==
    {i \in AssetIds : /\ assets[i].user_id = customerId
                      /\ assets[i].merchant_id = merchantId
                      /\ FilterMatch(assets[i], f)}

\* GET /api/merchant/customer/:customerId/photos
ListPhotos(caller, customerId, page, limit, f) ==
    /\ caller \in tokens
    /\ LET pageNum == ParseIntOr(page, 1)
           limitNum == ParseIntOr(limit, PhotosDefaultLimit)
           offset == (pageNum - 1) * limitNum
           matching == PhotosWhere(customerId, caller, f)
           R(code, items, total, pages) ==
               [op |-> "list_photos", code |-> code, caller |-> caller,
                customerId |-> customerId, photos |-> items, page |-> pageNum,
                limit |-> limitNum, total |-> total, pages |-> pages]
       IN
       IF users[caller].role # "merchant"
       THEN resp' = R(403, <<>>, 0, 0)
       ELSE IF ~(customerId \in UserIds /\ users[customerId].role = "customer")
       THEN resp' = R(404, <<>>, 0, 0)
       ELSE IF users[customerId].status # "active"
       THEN resp' = R(403, <<>>, 0, 0)
       ELSE resp' = R(200, SqlPage(JoinAll(Ordered(matching), caller), limitNum, offset),
                      Cardinality(matching), CeilDiv(Cardinality(matching), limitNum))
    /\ UNCHANGED <<users, tokens, assets, disk, ledger, logs, inflight, now>>

\* time passes between two readings of new Date()
Tick ==
    /\ now < MaxTime
    /\ now' = now + 1
    /\ UNCHANGED <<users, tokens, assets, disk, ledger, logs, inflight, resp>>

(* ---------------------------- specifications --------------------------- *)
BootstrapUsers == <<NewUser("admin", "pw1", "admin")>>

\* the database as scripts/initDatabase.js leaves it: the bootstrap admin alone
InitUsers ==
    /\ users = BootstrapUsers
    /\ tokens = {}
    /\ assets = <<>>
    /\ disk = {}
    /\ ledger = <<>>
    /\ logs = <<>>
    /\ inflight = <<>>
    /\ resp = NoResp
    /\ now = 0

NextUsers ==
    \/ \E n \in UserNames, p \in Passwords : Register(n, p)
    \/ \E n \in UserNames, p \in Passwords : Login(n, p)
    \/ \E c \in UserIds, n \in UserNames, p \in {"pw1"},
          r \in {"customer", "merchant", "sub_admin", "admin"} :
          CreateUser(c, n, p, r)
    \/ \E c \in UserIds, t \in IdTexts, s \in {"active", "disabled"},
          r \in Reasons : SetUserStatus(c, t, s, r)

SpecUsers == InitUsers /\ [][NextUsers]_vars

\* a populated users table: the bootstrap admin, a sub_admin created by it,
\* two merchants and two self-registered customers, all active
PopulatedUsers ==
    <<NewUser("admin", "pw1", "admin"), NewUser("sub", "pw1", "sub_admin"),
      NewUser("m1", "pw1", "merchant"), NewUser("m2", "pw1", "merchant"),
      NewUser("c1", "pw1", "customer"), NewUser("c2", "pw1", "customer")>>

\* a file_uploads row as POST /api/upload inserts it and the handlers leave it
AssetRow(id, owner, merchant, name, status, pstatus, edits) ==
    [user_id |-> owner, merchant_id |-> merchant, original_name |-> name,
     file_name |-> <<"stored", id, name>>, file_path |-> <<"uploads", id, name>>,
     file_size |-> 1, file_type |-> "image", mime_type |-> "image/jpeg",
     remarks |-> IF edits = 0 THEN NULL ELSE "note", upload_time |-> 0,
     status |-> status, process_status |-> pstatus, edit_count |-> edits,
     last_edit_time |-> IF edits = 0 THEN NullInt ELSE 0]

\* rows at the start of their life, and rows one edit away from the cap or at it
EditRows(id) ==
    {AssetRow(id, o, 3, "a.jpg", st, "received", e) :
        o \in {5, 6}, st \in {"active", "deleted"}, e \in {0, EditCap - 1, EditCap}}

InitEdit ==
    /\ users = PopulatedUsers
    /\ tokens = {5, 6}
    /\ \E n \in 1..MaxAssets :
          assets \in {a \in [1..n -> UNION {EditRows(i) : i \in 1..n}] :
                         \A i \in 1..n : a[i] \in EditRows(i)}
    /\ disk = {assets[i].file_name : i \in 1..Len(assets)}
    /\ ledger = <<>>
    /\ logs = <<>>
    /\ inflight = <<>>
    /\ resp = NoResp
    /\ now = 0

NextEdit ==
    \/ \E s \in Slots, c \in tokens, id \in 1..(MaxAssets + 1), r \in RemarkInputs :
          EditStart(s, c, id, r)
    \/ \E s \in Slots : EditCommit(s)
    \/ \E s \in Slots, c \in tokens, id \in 1..(MaxAssets + 1) : DeleteStart(s, c, id)
    \/ \E s \in Slots : DeleteCommit(s)
    \/ \E s \in Slots, c \in tokens, id \in 1..(MaxAssets + 1) : RestoreStart(s, c, id)
    \/ \E s \in Slots : RestoreCommit(s)
    \/ Tick

SpecEdit == InitEdit /\ [][NextEdit]_vars

\* rows sent by a customer to a merchant: the first, active, by customer 5 to
\* merchant 3
PhotoRows(id) ==
    {AssetRow(id, o, m, <<"photo", id>>, st, "received", 0) :
        o \in (IF id = 1 THEN {5} ELSE {5, 6}),
        m \in (IF id = 1 THEN {3} ELSE {3, 4}),
        st \in (IF id = 1 THEN {"active"} ELSE {"active", "deleted"})}

\* the file name multer gave the photo with this id
StoredName(i) == <<"stored", i, <<"photo", i>>>>

\* a table of MaxPhotos photos, some of whose files are gone from ./uploads
InitDownload ==
    /\ users = PopulatedUsers
    /\ tokens = {3, 5}
    /\ assets \in {a \in [1..MaxPhotos -> UNION {PhotoRows(i) : i \in 1..MaxPhotos}] :
                      \A i \in 1..MaxPhotos : a[i] \in PhotoRows(i)}
    /\ disk \in SUBSET {StoredName(i) : i \in 1..MaxPhotos}
    /\ ledger = <<>>
    /\ logs = <<>>
    /\ inflight = <<>>
    /\ resp = NoResp
    /\ now = 0

NextDownload ==
    \/ \E s \in Slots, c \in tokens, id \in 1..(MaxPhotos + 1),
          ps \in {"shipped", "bogus"} : StatusStart(s, c, id, ps)
    \/ \E s \in Slots : StatusCommit(s)
    \/ \E s \in Slots, c \in tokens, id \in 1..(MaxPhotos + 1) : SingleStart(s, c, id)
    \/ \E s \in Slots, sent \in BOOLEAN : SingleDone(s, sent)
    \/ \E s \in Slots, c \in tokens, cu \in {5, 6} : DownloadAllStart(s, c, cu)
    \/ \E s \in Slots, c \in tokens, cu \in {5, 6},
          ids \in {{}, {MaxPhotos}, 1..MaxPhotos, 1..(MaxPhotos + 1)} :
          DownloadSelectedStart(s, c, cu, ids)
    \/ \E s \in Slots, sent \in BOOLEAN : BatchBuild(s, sent)
    \/ \E s \in Slots, o \in {"end", "error"} : BatchFinish(s, o)
    \/ \E c \in tokens, cu \in {5, 7} : ListPhotos(c, cu, NaN, NaN, NoFilter)

SpecDownload == InitDownload /\ [][NextDownload]_vars

\* rows uploaded by customer 5 or by the sub_admin, at day 0 or day 1; the
\* first is the customer's
ListRows(id) ==
    {[AssetRow(id, o, 3, <<"photo", id>>, st, ps, 0) EXCEPT !.upload_time = t] :
        o \in (IF id = 1 THEN {5} ELSE {2, 5}), st \in {"active", "deleted"},
        ps \in {"received", "shipped"}, t \in 0..1}

InitList ==
    /\ users = PopulatedUsers
    /\ tokens = {2, 3, 5}
    /\ assets \in {a \in [1..MaxPhotos -> UNION {ListRows(i) : i \in 1..MaxPhotos}] :
                      \A i \in 1..MaxPhotos : a[i] \in ListRows(i)}
    /\ disk = {StoredName(i) : i \in 1..MaxPhotos}
    /\ ledger = <<>>
    /\ logs = <<>>
    /\ inflight = <<>>
    /\ resp = NoResp
    /\ now = 1

NextList ==
    \/ \E c \in tokens, i \in 1..(MaxPhotos + 1) : UploadsFile(c, StoredName(i))
    \/ \E c \in tokens, pg \in {NaN, Num(2)}, lm \in {NaN, Num(1)}, f \in FilterInputs :
          ListUploads(c, pg, lm, f)
    \/ \E c \in tokens, cu \in {5, 7}, pg \in {NaN, Num(2)}, lm \in {NaN, Num(1)},
          f \in {NoFilter, [NoFilter EXCEPT !.status = "shipped"]} :
          ListPhotos(c, cu, pg, lm, f)
    \/ Tick

SpecList == InitList /\ [][NextList]_vars

\* an admin and a customer hold tokens issued while both were active; the
\* customer owns the rows of file_uploads
InitSession ==
    /\ users = PopulatedUsers
    /\ tokens = {1, 5}
    /\ assets \in {a \in [1..MaxAssets -> UNION {EditRows(i) : i \in 1..MaxAssets}] :
                      \A i \in 1..MaxAssets : a[i] \in EditRows(i) /\ a[i].user_id = 5}
    /\ disk = {assets[i].file_name : i \in 1..Len(assets)}
    /\ ledger = <<>>
    /\ logs = <<>>
    /\ inflight = <<>>
    /\ resp = NoResp
    /\ now = 0

NextSession ==
    \/ \E c \in tokens, t \in {<<5>>, <<6>>}, st \in {"active", "disabled"},
          r \in {NULL, "spam"} : SetUserStatus(c, t, st, r)
    \/ \E n \in {"c1", "c2"}, pw \in Passwords : Login(n, pw)
    \/ \E s \in Slots, c \in tokens, id \in 1..MaxAssets : DeleteStart(s, c, id)
    \/ \E s \in Slots : DeleteCommit(s)
    \/ \E s \in Slots, c \in tokens, id \in 1..MaxAssets : RestoreStart(s, c, id)
    \/ \E s \in Slots : RestoreCommit(s)

SpecSession == InitSession /\ [][NextSession]_vars

\* the owner and two merchants hold tokens; the rows were sent to merchant 3
InitProcess ==
    /\ users = PopulatedUsers
    /\ tokens = {3, 4, 5}
    /\ assets \in {a \in [1..MaxAssets -> UNION {EditRows(i) : i \in 1..MaxAssets}] :
                      \A i \in 1..MaxAssets : a[i] \in EditRows(i) /\ a[i].user_id = 5}
    /\ disk = {assets[i].file_name : i \in 1..Len(assets)}
    /\ ledger = <<>>
    /\ logs = <<>>
    /\ inflight = <<>>
    /\ resp = NoResp
    /\ now = 0

NextProcess ==
    \/ \E s \in Slots, c \in tokens, id \in 1..(MaxAssets + 1),
          ps \in {"processing", "shipped", "bogus"} : StatusStart(s, c, id, ps)
    \/ \E s \in Slots : StatusCommit(s)
    \/ \E s \in Slots, c \in tokens, id \in 1..MaxAssets : DeleteStart(s, c, id)
    \/ \E s \in Slots : DeleteCommit(s)
    \/ \E s \in Slots, c \in tokens, id \in 1..MaxAssets : RestoreStart(s, c, id)
    \/ \E s \in Slots : RestoreCommit(s)

SpecProcess == InitProcess /\ [][NextProcess]_vars

\* names of files: "a", "b", and "é", which UTF-8 writes in two bytes
NameA == <<97>>

NameB == <<98>>

NameAccent == <<233>>

\* the batches of a few small files a request may carry
SmallBatches ==
    {<<>>, <<Jpg(NameA, 1)>>, <<Jpg(NameAccent, 1), Zip(NameB, 1)>>, <<Txt(NameA, 1)>>}

\* the name lists a duplicate check may carry
NameLists == {<<>>, <<NameA>>, <<NameAccent, NameB>>, <<NameA, NameAccent, NameB>>}

\* no file uploaded yet; the admin, a merchant and a customer hold tokens
InitUpload ==
    /\ users = PopulatedUsers
    /\ tokens = {1, 3, 5}
    /\ assets = <<>>
    /\ disk = {}
    /\ ledger = <<>>
    /\ logs = <<>>
    /\ inflight = <<>>
    /\ resp = NoResp
    /\ now = 0

NextUpload ==
    \/ \E s \in Slots, c \in {3, 5}, m \in {NullInt, 3, 4, 5}, files \in SmallBatches :
          /\ Cardinality(disk) + Len(files) <= MaxStored
          /\ UploadStart(s, c, m, files)
    \/ \E s \in Slots : UploadInsert(s)
    \/ \E st \in {"active", "disabled"} : SetUserStatus(1, <<3>>, st, "spam")

SpecUpload == InitUpload /\ [][NextUpload]_vars

\* a customer and a merchant hold tokens; no file uploaded yet
InitDuplicates ==
    /\ users = PopulatedUsers
    /\ tokens = {3, 5}
    /\ assets = <<>>
    /\ disk = {}
    /\ ledger = <<>>
    /\ logs = <<>>
    /\ inflight = <<>>
    /\ resp = NoResp
    /\ now = 0

NextDuplicates ==
    \/ \E s \in Slots, m \in {3, 4}, files \in SmallBatches :
          /\ Cardinality(disk) + Len(files) <= MaxStored
          /\ UploadStart(s, 5, m, files)
    \/ \E s \in Slots : UploadInsert(s)
    \/ \E c \in tokens, m \in {NullInt, 3, 4}, names \in NameLists :
          CheckDuplicates(c, m, names)

SpecDuplicates == InitDuplicates /\ [][NextDuplicates]_vars

\* n copies of one file
Repeat(file, n) == [k \in 1..n |-> file]

Bytes(mb) == mb * 1024 * 1024

\* batches at the limits of count and size
LimitBatches ==
    {Repeat(Jpg(NameA, Bytes(1)), n) : n \in {0, 1, MaxFiles, MaxFiles + 1}}
    \cup {Repeat(Zip(NameA, Bytes(1)), MaxFiles)}
    \cup {<<Jpg(NameA, ImageTotalLimit)>>, <<Jpg(NameA, ImageTotalLimit + 1)>>,
          <<Jpg(NameA, Bytes(25)), Jpg(NameB, Bytes(25))>>,
          <<Jpg(NameA, Bytes(25)), Jpg(NameB, Bytes(25) + 1)>>,
          <<RawJpg(NameA, Bytes(30)), Jpg(NameB, Bytes(30))>>,
          <<Jpg(NameA, Bytes(30)), Zip(NameB, Bytes(30))>>,
          <<Zip(NameA, ImageTotalLimit)>>, <<Zip(NameA, ImageTotalLimit + 1)>>,
          <<Zip(NameA, Bytes(1)), Txt(NameB, Bytes(1))>>}

InitUploadLimits ==
    /\ users = PopulatedUsers
    /\ tokens = {3, 5}
    /\ assets = <<>>
    /\ disk = {}
    /\ ledger = <<>>
    /\ logs = <<>>
    /\ inflight = <<>>
    /\ resp = NoResp
    /\ now = 0

\* one request on an empty uploads directory
NextUploadLimits ==
    \/ \E s \in Slots, c \in tokens, m \in {3, 4}, files \in LimitBatches :
          /\ disk = {}
          /\ UploadStart(s, c, m, files)
    \/ \E s \in Slots : UploadInsert(s)

SpecUploadLimits == InitUploadLimits /\ [][NextUploadLimits]_vars

\* the page and limit values a list request may carry: absent or not a
\* number, zero, negative, small, very large
PageInputs == {NaN, Num(0), Num(0 - 1), Num(2)}

LimitInputs == {NaN, Num(0 - 1), Num(1), Num(1000)}

\* one photo of customer 5 for merchant 3, not downloaded yet
InitPaging ==
    /\ users = PopulatedUsers
    /\ tokens = {3, 5}
    /\ assets \in {<<r>> : r \in PhotoRows(1)}
    /\ disk \in SUBSET {StoredName(1)}
    /\ ledger = <<>>
    /\ logs = <<>>
    /\ inflight = <<>>
    /\ resp = NoResp
    /\ now = 0

\* the merchant downloads the photo a few times; the lists are read between
NextPaging ==
    \/ \E s \in Slots : SingleStart(s, 3, 1)
    \/ \E s \in Slots, sent \in BOOLEAN : SingleDone(s, sent)
    \/ \E pg \in PageInputs, lm \in LimitInputs : ListUploads(5, pg, lm, NoFilter)
    \/ \E c \in tokens, cu \in {5, 7}, pg \in PageInputs, lm \in LimitInputs :
          ListPhotos(c, cu, pg, lm, NoFilter)
    \/ Tick

SpecPaging == InitPaging /\ [][NextPaging]_vars

\* the bodies a change-password request may carry: a customer's name or an
\* unknown one with old and new passwords, a name too short, an empty old
\* password, a new password too short
PasswordChanges ==
    ({"c1", "nobody"} \X Passwords \X Passwords)
        \cup {<<"x", "pw1", "pw2">>, <<"c1", "", "pw2">>, <<"c1", "pw1", "pw">>}

\* merchant 3 holds a token and has one photo of customer 5; any INSERT into
\* operation_logs or download_status may fail
InitLogFailure ==
    /\ users = PopulatedUsers
    /\ tokens = {3}
    /\ assets \in {<<r>> : r \in PhotoRows(1)}
    /\ disk \in SUBSET {StoredName(1)}
    /\ ledger = <<>>
    /\ logs = <<>>
    /\ inflight = <<>>
    /\ resp = NoResp
    /\ now = 0

NextLogFailure ==
    \/ \E in \in PasswordChanges, written \in BOOLEAN :
          ChangePassword(in[1], in[2], in[3], written)
    \/ \E s \in Slots, id \in 1..2, recorded \in BOOLEAN : SingleStartOr(s, 3, id, recorded)
    \/ \E s \in Slots, sent \in BOOLEAN, recorded \in BOOLEAN, written \in BOOLEAN :
          SingleDoneOr(s, sent, recorded, written)

SpecLogFailure == InitLogFailure /\ [][NextLogFailure]_vars

\* the bootstrap admin, two sub_admins, a merchant and a customer
StaffUsers ==
    <<NewUser("admin", "pw1", "admin"), NewUser("sub", "pw1", "sub_admin"),
      NewUser("sub2", "pw1", "sub_admin"), NewUser("m1", "pw1", "merchant"),
      NewUser("c1", "pw1", "customer")>>

\* the admin, one sub_admin and the merchant hold tokens
InitStaff ==
    /\ users = StaffUsers
    /\ tokens = {1, 2, 4}
    /\ assets = <<>>
    /\ disk = {}
    /\ ledger = <<>>
    /\ logs = <<>>
    /\ inflight = <<>>
    /\ resp = NoResp
    /\ now = 0

NextStaff ==
    \/ \E c \in tokens, id \in 0..(Len(StaffUsers) + 1), p \in {"pw2", "pw"} :
          ResetPassword(c, id, p, TRUE)
    \/ \E c \in tokens, id \in 1..Len(StaffUsers), st \in {"active", "disabled"} :
          SetUserStatus(c, <<id>>, st, "spam")

SpecStaff == InitStaff /\ [][NextStaff]_vars

\* photos of customer 5 at any process status, sent to merchant 3 or 4
StatusRows(id) ==
    {AssetRow(id, 5, m, <<"photo", id>>, st, ps, 0) :
        m \in {3, 4}, st \in {"active", "deleted"},
        ps \in {"received", "processing", "shipped"}}

InitStatus ==
    /\ users = PopulatedUsers
    /\ tokens = {3, 5}
    /\ assets \in {a \in [1..MaxPhotos -> UNION {StatusRows(i) : i \in 1..MaxPhotos}] :
                      \A i \in 1..MaxPhotos : a[i] \in StatusRows(i)}
    /\ disk = {StoredName(i) : i \in 1..MaxPhotos}
    /\ ledger = <<>>
    /\ logs = <<>>
    /\ inflight = <<>>
    /\ resp = NoResp
    /\ now = 0

NextStatus ==
    \/ \E s \in Slots, c \in tokens, id \in 1..(MaxPhotos + 1),
          ps \in {"received", "processing", "shipped", "bogus"} :
          StatusStart(s, c, id, ps)
    \/ \E s \in Slots : StatusCommit(s)
    \/ \E s \in Slots, c \in tokens, id \in 1..MaxPhotos : DeleteStart(s, c, id)
    \/ \E s \in Slots : DeleteCommit(s)

SpecStatus == InitStatus /\ [][NextStatus]_vars

\* the life of the rows of file_uploads: customer 5 uploads to merchant 3,
\* edits, deletes and restores; the merchant sets the process status
InitAssets ==
    /\ users = PopulatedUsers
    /\ tokens = {3, 5}
    /\ assets = <<>>
    /\ disk = {}
    /\ ledger = <<>>
    /\ logs = <<>>
    /\ inflight = <<>>
    /\ resp = NoResp
    /\ now = 0

NextAssets ==
    \/ \E s \in Slots, files \in {<<Jpg(NameA, 1)>>, <<Jpg(NameAccent, 1), Zip(NameB, 1)>>} :
          /\ Cardinality(disk) + Len(files) <= MaxStored
          /\ UploadStart(s, 5, 3, files)
    \/ \E s \in Slots : UploadInsert(s)
    \/ \E s \in Slots, id \in 1..MaxStored : EditStart(s, 5, id, "note")
    \/ \E s \in Slots : EditCommit(s)
    \/ \E s \in Slots, id \in 1..MaxStored : DeleteStart(s, 5, id)
    \/ \E s \in Slots : DeleteCommit(s)
    \/ \E s \in Slots, id \in 1..MaxStored : RestoreStart(s, 5, id)
    \/ \E s \in Slots : RestoreCommit(s)
    \/ \E s \in Slots, id \in 1..MaxStored : StatusStart(s, 3, id, "shipped")
    \/ \E s \in Slots : StatusCommit(s)
    \/ Tick

SpecAssets == InitAssets /\ [][NextAssets]_vars

\* the admin and one sub_admin, both logged in, with room for one more user
InitRoles ==
    /\ users = <<NewUser("admin", "pw1", "admin"), NewUser("sub", "pw1", "sub_admin")>>
    /\ tokens = {1, 2}
    /\ assets = <<>>
    /\ disk = {}
    /\ ledger = <<>>
    /\ logs = <<>>
    /\ inflight = <<>>
    /\ resp = NoResp
    /\ now = 0

NextRoles ==
    \/ \E n \in {"sub", "ua"} : Register(n, "pw1")
    \/ \E c \in tokens, n \in {"sub", "ua"},
          r \in {"customer", "merchant", "sub_admin", "admin"} :
          CreateUser(c, n, "pw1", r)
    \/ \E c \in tokens, id \in 1..MaxUsers, st \in {"active", "disabled"} :
          SetUserStatus(c, <<id>>, st, "spam")
    \/ \E c \in tokens, id \in 1..MaxUsers : ResetPassword(c, id, "pw2", TRUE)

SpecRoles == InitRoles /\ [][NextRoles]_vars

\* uploads by customer 5 to merchant 3 whose INSERTs may fail
InitUploadFailure ==
    /\ users = PopulatedUsers
    /\ tokens = {5}
    /\ assets = <<>>
    /\ disk = {}
    /\ ledger = <<>>
    /\ logs = <<>>
    /\ inflight = <<>>
    /\ resp = NoResp
    /\ now = 0

NextUploadFailure ==
    \/ \E s \in Slots, files \in SmallBatches :
          /\ Cardinality(disk) + Len(files) <= MaxStored
          /\ UploadStart(s, 5, 3, files)
    \/ \E s \in Slots, inserted \in BOOLEAN : UploadInsertOr(s, inserted)
    \/ Tick

SpecUploadFailure == InitUploadFailure /\ [][NextUploadFailure]_vars

(* ------------------------------- claims -------------------------------- *)
\* C1: in every reachable state every asset's edit_count lies between 0 and
\* the cap of 10, however many remarks edits are requested and however the
\* check and the UPDATE of edits of one asset interleave.
C1_EditCountWithinCap ==
    \A i \in AssetIds :
        Coalesce(assets[i].edit_count, 0) >= 0 /\ Coalesce(assets[i].edit_count, 0) <= EditCap

\* the responses of download-all and download-selected that carry resolved photos
BatchResp ==
    /\ resp.op \in {"download_all", "download_selected"}
    /\ resp.photos # <<>>

\* the resolved photos of the last batch response whose file is not on disk
MissingOf(photos) == {p \in Range(photos) : ~ExistsSync(p)}

\* the ledger rows with a status, for one photo or for all
RowsWith(status) == {k \in DOMAIN ledger : ledger[k].status = status}

RowsFor(id, status) == {k \in RowsWith(status) : ledger[k].file_id = id}

\* C2: a batch download that resolves N >= 2 active photos of which exactly
\* one has no file on disk answers with an archive of the other N-1 files and
\* appends N-1 success rows and 1 failed row to the ledger; the failed row is
\* the missing photo's and the missing photo gets no success row.
C2_OneMissingOneFailedRow ==
    (/\ BatchResp
     /\ resp.code = 200
     /\ Len(resp.photos) >= 2
     /\ Cardinality(MissingOf(resp.photos)) = 1) =>
        /\ resp.added = Range(resp.photos) \ MissingOf(resp.photos)
        /\ Cardinality(RowsWith("success")) = Len(resp.photos) - 1
        /\ Cardinality(RowsWith("failed")) = 1
        /\ \A m \in MissingOf(resp.photos) :
              /\ Cardinality(RowsFor(m, "failed")) = 1
              /\ RowsFor(m, "success") = {}

\* C3: a batch download all of whose resolved photos have no file on disk is
\* answered not-found, its archive is never finalized, and it appends one
\* failed row per resolved photo and no success row to the ledger.
C3_AllMissingNotFound ==
    /\ (BatchResp /\ MissingOf(resp.photos) = Range(resp.photos)) =>
           /\ resp.code = 404
           /\ resp.added = {}
           /\ RowsWith("success") = {}
           /\ \A p \in Range(resp.photos) : Cardinality(RowsFor(p, "failed")) = 1
    /\ \A t \in DOMAIN inflight :
           (inflight[t].op \in {"download_all", "download_selected"}
            /\ inflight[t].pc = "archiving") => inflight[t].added # {}

\* a batch download resolved every photo of the table and found no file
C3_Witness ==
    /\ BatchResp
    /\ resp.zip
    /\ resp.code = 404
    /\ Len(resp.photos) = MaxPhotos
    /\ MissingOf(resp.photos) = Range(resp.photos)
    /\ Cardinality(RowsWith("failed")) = MaxPhotos

\* C4: a soft-delete of an asset that is already deleted, and a restore of an
\* asset that is active, get an error response, leave the table as it was,
\* issue no UPDATE and append no audit entry.
C4_Step ==
    \A s \in Slots, c \in tokens, id \in AssetIds :
        /\ (DeleteStart(s, c, id) /\ OwnedFile(id, c) /\ assets[id].status = "deleted") =>
               /\ resp' = [op |-> "delete", code |-> 400, caller |-> c, id |-> id]
               /\ UNCHANGED <<assets, logs, inflight>>
        /\ (RestoreStart(s, c, id) /\ OwnedFile(id, c) /\ assets[id].status = "active") =>
               /\ resp' = [op |-> "restore", code |-> 400, caller |-> c, id |-> id]
               /\ UNCHANGED <<assets, logs, inflight>>

C4_DoubleDeleteRejected ==
    [][C4_Step]_vars

\* the owner deleted the asset with an accepted request and asked again
C4_Witness ==
    /\ resp.op = "delete" /\ resp.code = 400
    /\ OwnedFile(resp.id, resp.caller)
    /\ assets[resp.id].status = "deleted"
    /\ \E i \in 1..Len(logs) : logs[i] = [user_id |-> resp.caller, operation |-> "delete_file"]

\* C5: the UPDATE of an owner's soft-delete and the UPDATE of the restore that
\* follows change the status column of that one row and nothing else, and the
\* restore leaves status = active: after the round trip every other field has
\* the value it had before the delete.
C5_Step ==
    \A s \in DOMAIN inflight :
        (DeleteCommit(s) \/ RestoreCommit(s)) =>
            LET q == inflight[s] IN
            /\ Len(assets') = Len(assets)
            /\ \A i \in AssetIds \ {q.id} : assets'[i] = assets[i]
            /\ q.id \in AssetIds =>
                   /\ assets'[q.id] = [assets[q.id] EXCEPT !.status = assets'[q.id].status]
                   /\ assets'[q.id].status = (IF q.op = "delete" THEN "deleted" ELSE "active")

C5_DeleteRestoreRoundTrip ==
    [][C5_Step]_vars

\* an asset with remarks and edits was deleted and then restored by its owner
C5_Witness ==
    /\ resp.op = "restore" /\ resp.code = 200
    /\ assets[resp.id].status = "active"
    /\ assets[resp.id].edit_count > 0
    /\ \E i, j \in 1..Len(logs) :
          /\ i < j
          /\ logs[i] = [user_id |-> resp.caller, operation |-> "delete_file"]
          /\ logs[j] = [user_id |-> resp.caller, operation |-> "restore_file"]

\* C6: every row GET /api/uploads returns is owned by the caller, whatever
\* the page, the limit, the status filter and the time filter.
C6_ListOnlyOwnRows ==
    resp.op = "list_uploads" =>
        \A k \in DOMAIN resp.files :
            /\ resp.files[k] \in AssetIds
            /\ assets[resp.files[k]].user_id = resp.caller

\* a customer got a non-empty list while the table held another user's row
C6_Witness ==
    /\ resp.op = "list_uploads"
    /\ users[resp.caller].role = "customer"
    /\ resp.files # <<>>
    /\ \E i \in AssetIds : assets[i].user_id # resp.caller

\* the photos of a request of a merchant handler, in flight or answered
PhotosOf(q) ==
    IF q.op \in {"download_all", "download_selected"} THEN Range(q.photos)
    ELSE IF q.op \in {"download", "set_status"} THEN {q.id}
    ELSE {}

C7_State ==
    /\ (resp.op = "list_photos" /\ resp.code = 200) =>
           \A k \in DOMAIN resp.photos :
               /\ assets[resp.photos[k].id].merchant_id = resp.caller
               /\ assets[resp.photos[k].id].user_id = resp.customerId
    /\ \A k \in DOMAIN ledger :
           /\ ledger[k].file_id \in AssetIds
           /\ assets[ledger[k].file_id].merchant_id = ledger[k].merchant_id
           /\ assets[ledger[k].file_id].status = "active"
    /\ \A t \in DOMAIN inflight :
           LET q == inflight[t] IN
           /\ \A p \in PhotosOf(q) :
                  p \in AssetIds /\ assets[p].merchant_id = q.caller
           /\ q.op \in {"download", "download_all", "download_selected"} =>
                  \A p \in PhotosOf(q) : assets[p].status = "active"
           /\ q.op \in {"download_all", "download_selected"} =>
                  \A p \in PhotosOf(q) : assets[p].user_id = q.customerId
           /\ q.op = "download_selected" => PhotosOf(q) \subseteq q.requested
    /\ BatchResp =>
           /\ resp.added \subseteq Range(resp.photos)
           /\ \A p \in Range(resp.photos) :
                  /\ assets[p].merchant_id = resp.caller
                  /\ assets[p].user_id = resp.customerId
                  /\ assets[p].status = "active"
           /\ resp.op = "download_selected" => Range(resp.photos) \subseteq resp.requested
           /\ \A k \in DOMAIN ledger : ledger[k].file_id \in Range(resp.photos)
    /\ (resp.op = "download" /\ resp.code = 200) =>
           assets[resp.id].merchant_id = resp.caller /\ assets[resp.id].status = "active"

C7_Step ==
    /\ \A i \in AssetIds :
           assets'[i] # assets[i] =>
               \E t \in DOMAIN inflight :
                   /\ inflight[t].op = "set_status"
                   /\ inflight[t].id = i
                   /\ assets[i].merchant_id = inflight[t].caller
                   /\ assets'[i] = [assets[i] EXCEPT
                                        !.process_status = inflight[t].process_status]
    /\ ledger' # ledger =>
           \E t \in DOMAIN inflight \cup {0} :
               LET q == IF t = 0 THEN resp' ELSE inflight[t]
                   photos == PhotosOf(q)
                   caller == q.caller
               IN \A k \in (Len(ledger) + 1)..Len(ledger') :
                      /\ ledger'[k].file_id \in photos
                      /\ ledger'[k].merchant_id = caller
                      /\ users[caller].role = "merchant"

C8_SubAdminOwnFilesOnly ==
    (/\ resp.op \in {"uploads_file", "list_uploads", "list_photos"}
     /\ users[resp.caller].role = "sub_admin") =>
        /\ resp.op = "uploads_file" =>
               \A i \in resp.served :
                   assets[i].user_id = resp.caller \/ assets[i].merchant_id = resp.caller
        /\ resp.op = "list_uploads" =>
               \A k \in DOMAIN resp.files :
                   \/ assets[resp.files[k]].user_id = resp.caller
                   \/ assets[resp.files[k]].merchant_id = resp.caller
        /\ resp.op = "list_photos" => resp.photos = <<>>

\* C9: in every reachable state the user with id 1 (the bootstrap admin) has
\* status active, whoever asks for the status change and whatever text of the
\* id the URL carries.
C9_BootstrapAdminActive ==
    users[1].status = "active"

C10_State ==
    \A i \in UserIds :
        (users[i].status = "disabled") <=> ~ReasonMissing(users[i].disable_reason)

C10_Step ==
    \A c \in UserIds, t \in IdTexts, s \in {"active", "disabled"}, r \in Reasons :
        SetUserStatus(c, t, s, r) =>
            /\ (s = "disabled" /\ ReasonMissing(r)) => resp'.code # 200
            /\ resp'.code # 200 => users' = users /\ logs' = logs
            /\ resp'.code = 200 =>
                   LET id == DigitsValue(t) IN
                   /\ users'[id].status = s
                   /\ users'[id].disable_reason = (IF s = "disabled" THEN r ELSE NULL)
                   /\ \A j \in UserIds \ {id} : users'[j] = users[j]

\* C10: a user has a non-empty disable_reason exactly when its status is
\* disabled; a disable request without a reason is rejected and changes
\* nothing, a disable request with a reason stores that reason, and an enable
\* request sets the reason to NULL.
C10_ReasonIffDisabled ==
    []C10_State /\ [][C10_Step]_vars

\* a user was disabled with a reason, then enabled again by an accepted request
C10_Witness ==
    /\ resp.op = "user_status" /\ resp.code = 200 /\ resp.status = "active"
    /\ DigitsValue(resp.idText) \in UserIds
    /\ users[DigitsValue(resp.idText)].disable_reason = NULL
    /\ \E i \in 1..Len(logs) : logs[i].operation = "disable_user"

C11_Step ==
    \A c \in tokens :
        users[c].status = "disabled" =>
            /\ \A s \in Slots, id \in AssetIds :
                   (DeleteStart(s, c, id) \/ RestoreStart(s, c, id)) =>
                       /\ resp'.code \in {401, 403}
                       /\ UNCHANGED <<users, tokens, assets, disk, ledger, logs, inflight>>
            /\ \A pw \in Passwords :
                   Login(users[c].username, pw) =>
                       /\ resp'.code = 401
                       /\ UNCHANGED <<users, tokens, assets, disk, ledger, inflight>>

\* C11: while an account is disabled, every request made with its
\* credentials, a request carrying a token issued before the account was
\* disabled included, is answered 401 or 403 and changes no table.
C11_DisabledAccountRejected ==
    [][C11_Step]_vars

C12_Step ==
    /\ \A i \in AssetIds :
           assets'[i].process_status # assets[i].process_status =>
               /\ assets[i].status = "active"
               /\ assets'[i].process_status \in {"received", "processing", "shipped"}
               /\ \E t \in DOMAIN inflight :
                      /\ inflight[t].op = "set_status"
                      /\ inflight[t].id = i
                      /\ inflight[t].caller = assets[i].merchant_id
                      /\ users[inflight[t].caller].role = "merchant"
    /\ \A s \in Slots, c \in tokens, id \in 1..(MaxAssets + 1),
          ps \in {"processing", "shipped", "bogus"} :
           (/\ StatusStart(s, c, id, ps)
            /\ \/ id \notin AssetIds
               \/ assets[id].merchant_id # c
               \/ ps \notin {"received", "processing", "shipped"}) =>
               UNCHANGED <<assets, logs, inflight>>

\* C12: every write of process_status is made by the merchant the photo was
\* sent to and lands on a row whose status is active, also when the owner's
\* soft-delete runs between the handler's SELECT and its UPDATE; a request of
\* another principal or with an unknown value changes nothing.
C12_ProcessStatusWhileActive ==
    [][C12_Step]_vars

C13_Step ==
    \A i \in AssetIds :
        (\/ assets'[i].remarks # assets[i].remarks
         \/ assets'[i].edit_count # assets[i].edit_count
         \/ assets'[i].last_edit_time # assets[i].last_edit_time) =>
            assets[i].status = "active"

\* C13: the remarks, edit_count and last_edit_time of a row change only in a
\* step taken while the row's status is active, also when the owner's
\* soft-delete runs between the edit handler's SELECT and its UPDATE.
C13_EditsWhileActive ==
    [][C13_Step]_vars

C14_Step ==
    /\ \A i \in AssetIds :
           Coalesce(assets'[i].edit_count, 0) >= Coalesce(assets[i].edit_count, 0)
    /\ \A s \in DOMAIN inflight :
           EditCommit(s) =>
               LET id == inflight[s].id IN
               /\ assets'[id].edit_count = Coalesce(assets[id].edit_count, 0) + 1
               /\ resp'.editCount = assets'[id].edit_count
               /\ resp'.remainingEdits = EditCap - assets'[id].edit_count

\* C14: an accepted remarks edit raises the stored edit_count by exactly one,
\* no step lowers it, and the response of the edit reports the edit_count
\* stored after it and remainingEdits = 10 - edit_count, also when two edits
\* of one row run at once.
C14_EditCountReported ==
    [][C14_Step]_vars

C15_Step ==
    \A s \in Slots, c \in tokens, id \in 1..(MaxAssets + 1), r \in RemarkInputs :
        (/\ EditStart(s, c, id, r)
         /\ \/ RemarkLen(r) > MaxRemarksLen
            \/ id \notin AssetIds
            \/ assets[id].user_id # c
            \/ assets[id].status = "deleted"
            \/ Coalesce(assets[id].edit_count, 0) >= EditCap) =>
            /\ resp'.op = "edit"
            /\ resp'.code \in {400, 404}
            /\ UNCHANGED <<assets, logs, inflight>>

C16_Step ==
    /\ \A k \in (Len(assets) + 1)..Len(assets') :
           /\ assets'[k].merchant_id \in UserIds
           /\ users[assets'[k].merchant_id].role = "merchant"
           /\ users[assets'[k].merchant_id].status = "active"
    /\ \A s \in Slots, c \in {3, 5}, m \in {NullInt, 3, 4, 5}, files \in SmallBatches :
           (/\ UploadStart(s, c, m, files)
            /\ \/ m \notin UserIds
               \/ users[m].role # "merchant"
               \/ users[m].status # "active") =>
               /\ resp'.op = "upload" /\ resp'.code = 400
               /\ UNCHANGED <<assets, inflight>>

\* C16: a row of file_uploads is written only while its merchant_id names a
\* user whose role is merchant and whose status is active at that moment; an
\* upload naming any other merchant is rejected and writes no row.
C16_UploadToActiveMerchant ==
    [][C16_Step]_vars

\* the files of ./uploads that have a row, or whose upload is still inserting
C17_State ==
    \A f \in disk :
        \/ \E i \in AssetIds : assets[i].file_name = f
        \/ \E t \in DOMAIN inflight :
               /\ inflight[t].op = "upload"
               /\ \E k \in DOMAIN inflight[t].files : inflight[t].files[k].filename = f

C17_Step ==
    \A s \in Slots, c \in {3, 5}, m \in {NullInt, 3, 4, 5}, files \in SmallBatches :
        (UploadStart(s, c, m, files) /\ inflight' = inflight) =>
            /\ resp'.op = "upload" /\ resp'.code = 400
            /\ UNCHANGED <<assets, disk>>

\* C17: a rejected upload leaves file_uploads and ./uploads as they were, so
\* every file of ./uploads has a row of file_uploads (or belongs to an upload
\* whose rows are being inserted).
C17_RejectedUploadLeavesNothing ==
    []C17_State /\ [][C17_Step]_vars

C18_Step ==
    \A s \in Slots, c \in tokens, m \in {3, 4}, files \in LimitBatches :
        (/\ UploadStart(s, c, m, files)
         /\ \A k \in DOMAIN files : FileFilter(files[k])) =>
            ((inflight' # inflight) <=>
                 /\ Len(files) >= 1
                 /\ Len(files) <= MaxFiles
                 /\ TotalImageSize(files) <= ImageTotalLimit)

\* C18: an upload to an active merchant whose files are all of an allowed type
\* is accepted exactly when it carries 1 to 20 files and its images sum to at
\* most 50MB; the size of an archive never makes it rejected.
C18_CountAndSizeAcceptance ==
    [][C18_Step]_vars

\* C19: in every reachable state the user_id of every row of file_uploads is
\* a customer and its merchant_id is a merchant, whoever called the upload.
C19_OwnerCustomerRecipientMerchant ==
    \A i \in AssetIds :
        /\ assets[i].user_id \in UserIds
        /\ users[assets[i].user_id].role = "customer"
        /\ assets[i].merchant_id \in UserIds
        /\ users[assets[i].merchant_id].role = "merchant"

C20_Step ==
    \A c \in tokens, m \in {NullInt, 3, 4}, names \in NameLists :
        CheckDuplicates(c, m, names) =>
            /\ UNCHANGED <<users, tokens, assets, disk, ledger, logs, inflight>>
            /\ (users[c].role = "customer" /\ m # NullInt) =>
                   /\ resp'.code = 200
                   /\ Range(resp'.duplicateFiles) =
                          {n \in Range(names) :
                              \E i \in AssetIds : /\ assets[i].user_id = c
                                                  /\ assets[i].merchant_id = m
                                                  /\ assets[i].original_name = n}

C21_NoSharedOriginalName ==
    \A i, j \in AssetIds :
        (/\ assets[i].user_id = assets[j].user_id
         /\ assets[i].merchant_id = assets[j].merchant_id
         /\ assets[i].original_name = assets[j].original_name) => i = j

C22_Step ==
    /\ \A pg \in PageInputs, lm \in LimitInputs :
          (/\ ListUploads(5, pg, lm, NoFilter)
           /\ resp'.code = 200 /\ resp'.page >= 1 /\ resp'.limit >= 1) =>
              LET total == Cardinality({i \in AssetIds : assets[i].user_id = 5})
                  offset == (resp'.page - 1) * resp'.limit
                  rest == IF total > offset THEN total - offset ELSE 0
              IN /\ resp'.total = total
                 /\ resp'.pages * resp'.limit >= total
                 /\ (resp'.pages - 1) * resp'.limit < total
                 /\ Len(resp'.files) = IF rest < resp'.limit THEN rest ELSE resp'.limit
    /\ \A c \in tokens, cu \in {5, 7}, pg \in PageInputs, lm \in LimitInputs :
          (/\ ListPhotos(c, cu, pg, lm, NoFilter)
           /\ resp'.code = 200 /\ resp'.page >= 1 /\ resp'.limit >= 1) =>
              LET total == Cardinality({i \in AssetIds : /\ assets[i].user_id = cu
                                                         /\ assets[i].merchant_id = c})
                  offset == (resp'.page - 1) * resp'.limit
                  rest == IF total > offset THEN total - offset ELSE 0
              IN /\ resp'.total = total
                 /\ resp'.pages * resp'.limit >= total
                 /\ (resp'.pages - 1) * resp'.limit < total
                 /\ Len(resp'.photos) = IF rest < resp'.limit THEN rest ELSE resp'.limit

\* C22: a list answered for a page of at least 1 and a limit of at least 1
\* reports as total the number of rows its WHERE clause selects, as pages the
\* least count of pages of limit rows that holds total rows (0 for none), and
\* carries on each page the rows of that page, so that all pages together
\* carry total items.
C22_TotalPagesItems ==
    [][C22_Step]_vars

\* C23: every list that is answered uses a page of at least 1, a limit
\* between 1 and 100 and an offset (page - 1) * limit that is not negative,
\* whatever page and limit the request carried.
C23_PageAndLimitClamped ==
    (resp.op \in {"list_uploads", "list_photos"} /\ resp.code = 200) =>
        /\ resp.page >= 1
        /\ resp.limit >= 1 /\ resp.limit <= 100
        /\ (resp.page - 1) * resp.limit >= 0

C24_Step ==
    \A c \in tokens, cu \in {5, 7} :
        (ListPhotos(c, cu, NaN, NaN, NoFilter) /\ resp'.code = 200) =>
            \A i \in AssetIds :
                (assets[i].user_id = cu /\ assets[i].merchant_id = c) =>
                    LET shown == {k \in DOMAIN resp'.photos : resp'.photos[k].id = i}
                        hits == {k \in DOMAIN ledger : /\ ledger[k].file_id = i
                                                       /\ ledger[k].merchant_id = c}
                        latest == CHOOSE k \in hits : \A h \in hits : h <= k
                    IN /\ Cardinality(shown) = 1
                       /\ \A k \in shown :
                             resp'.photos[k].download_status =
                                 IF hits = {} THEN NULL ELSE ledger[latest].status

\* C24: the merchant photo list, read whole (first page, default limit),
\* shows each asset of the customer for the calling merchant exactly once,
\* with the status of the latest download_status row for that asset and
\* merchant, or no status when there is none.
C24_OncePerAssetLatestStatus ==
    [][C24_Step]_vars

C25_Step ==
    /\ \A s \in Slots, sent \in BOOLEAN :
          SingleDone(s, sent) =>
              /\ ledger' = Append(ledger, [file_id |-> inflight[s].id,
                                           merchant_id |-> inflight[s].caller,
                                           download_type |-> "single",
                                           status |-> IF sent THEN "success" ELSE "failed",
                                           download_time |-> now])
              /\ Len(logs') = Len(logs) + 1
    /\ \A s \in Slots, c \in tokens, id \in AssetIds :
          (/\ SingleStart(s, c, id)
           /\ users[c].role = "merchant"
           /\ assets[id].merchant_id = c /\ assets[id].status = "active") =>
              \/ /\ Len(inflight') = Len(inflight) + 1
                 /\ UNCHANGED <<ledger, logs>>
              \/ /\ UNCHANGED inflight
                 /\ ledger' = Append(ledger, [file_id |-> id, merchant_id |-> c,
                                              download_type |-> "single",
                                              status |-> "failed", download_time |-> now])
                 /\ Len(logs') = Len(logs) + 1

\* C25: a single-photo download of an active photo of the calling merchant
\* appends, when it ends, exactly one download_status row (success when the
\* file was sent, failed otherwise) and exactly one operation_logs entry, and
\* writes nothing before.
C25_OneLedgerRowOneAuditEntry ==
    [][C25_Step]_vars

C26_Step ==
    /\ \A c \in tokens, cu \in {5, 6} :
          (/\ users[c].role = "merchant"
           /\ ~ \E i \in AssetIds : /\ assets[i].user_id = cu
                                    /\ assets[i].merchant_id = c
                                    /\ assets[i].status = "active"
           /\ \E s \in Slots : DownloadAllStart(s, c, cu)) =>
              /\ resp'.op = "download_all" /\ resp'.code = 404
              /\ UNCHANGED <<assets, disk, ledger, logs, inflight>>
    /\ \A c \in tokens, cu \in {5, 6},
          ids \in {{MaxPhotos}, 1..MaxPhotos, 1..(MaxPhotos + 1)} :
          (/\ users[c].role = "merchant"
           /\ ids # {}
           /\ ~ \E i \in AssetIds \cap ids : /\ assets[i].user_id = cu
                                             /\ assets[i].merchant_id = c
                                             /\ assets[i].status = "active"
           /\ \E s \in Slots : DownloadSelectedStart(s, c, cu, ids)) =>
              /\ resp'.op = "download_selected" /\ resp'.code = 404
              /\ UNCHANGED <<assets, disk, ledger, logs, inflight>>

C27_OnePhotoNoArchive ==
    (/\ resp.op \in {"download_all", "download_selected"}
     /\ resp.code = 200
     /\ Len(resp.photos) = 1) => ~resp.zip

C28_Step ==
    \A s \in Slots :
        BatchFinish(s, "error") =>
            LET q == inflight[s]
                new == SubSeq(ledger', Len(ledger) + 1, Len(ledger'))
            IN /\ ledger' = ledger \o new
               /\ \A p \in Range(q.photos) :
                     \E k \in DOMAIN new : /\ new[k].file_id = p
                                           /\ new[k].merchant_id = q.caller
                                           /\ new[k].status = "failed"
               /\ \A k \in DOMAIN new : new[k].status = "failed"
               /\ \A k \in DOMAIN q.written : q.written[k].status = "failed"

C29_Step ==
    /\ Len(ledger') >= Len(ledger)
    /\ SubSeq(ledger', 1, Len(ledger)) = ledger
    /\ Len(logs') >= Len(logs)
    /\ SubSeq(logs', 1, Len(logs)) = logs

\* C29: every step leaves the rows download_status and operation_logs
\* already hold as they are, in their order: the tables only gain rows at
\* their end.
C29_AppendOnly ==
    [][C29_Step]_vars

\* both tables have grown over several requests: a status update and a batch
\* download that wrote a row for each of two photos
C29_Witness ==
    /\ Len(ledger) >= 2
    /\ Len(logs) >= 2
    /\ \E k \in DOMAIN logs : logs[k].operation = "update_photo_status"
    /\ \E k \in DOMAIN ledger : ledger[k].download_type = "batch"

C30_Step ==
    /\ resp'.op = "change_password" =>
          \A in \in PasswordChanges, written \in BOOLEAN :
             ChangePassword(in[1], in[2], in[3], written) =>
                 LET n == in[1]
                     o == in[2]
                     p == in[3]
                     found == {i \in UserIds : users[i].username = n}
                     id == CHOOSE i \in found : TRUE
                     code == IF n = "x" \/ o = "" \/ p = "pw" THEN 400
                             ELSE IF found = {} THEN 401
                             ELSE IF users[id].password # Hash(o) THEN 401
                             ELSE IF users[id].password = Hash(p) THEN 400
                             ELSE 200
                 IN /\ resp'.code = code
                    /\ users' = IF code = 200
                                THEN [users EXCEPT ![id] = [@ EXCEPT !.password = Hash(p)]]
                                ELSE users
                    /\ UNCHANGED <<tokens, assets, disk, ledger, inflight>>
    /\ \A s \in Slots, id \in 1..2, recorded \in BOOLEAN :
          SingleStartOr(s, 3, id, recorded) =>
              LET mine == /\ id \in AssetIds
                          /\ assets[id].merchant_id = 3 /\ assets[id].status = "active"
              IN /\ mine /\ assets[id].file_name \in disk =>
                        Len(inflight') = Len(inflight) + 1 /\ UNCHANGED resp
                 /\ ~(mine /\ assets[id].file_name \in disk) =>
                        resp'.code = 404 /\ UNCHANGED inflight
                 /\ UNCHANGED <<users, tokens, assets, disk, logs>>
    /\ \A s \in Slots, sent \in BOOLEAN, recorded \in BOOLEAN, written \in BOOLEAN :
          SingleDoneOr(s, sent, recorded, written) =>
              /\ resp'.code = 200 /\ resp'.sent = sent /\ resp'.id = inflight[s].id
              /\ Len(inflight') = Len(inflight) - 1
              /\ UNCHANGED <<users, tokens, assets, disk>>

C31_Step ==
    \A c \in tokens, id \in 0..(Len(StaffUsers) + 1), p \in {"pw2", "pw"} :
        (users[c].role = "sub_admin" /\ ResetPassword(c, id, p, TRUE)) =>
            LET allowed == /\ id \in UserIds
                           /\ \/ users[id].role \in {"merchant", "customer"}
                              \/ id = c
            IN /\ (allowed /\ p = "pw2") =>
                      /\ resp'.code = 200
                      /\ users'[id].password = Hash(p)
                      /\ \A j \in UserIds \ {id} : users'[j] = users[j]
               /\ ~allowed => resp'.code # 200 /\ users' = users
               /\ users' # users => allowed

\* C31: a password reset by a sub_admin with a valid new password sets the
\* password of a merchant, of a customer or of the sub_admin itself and of
\* nobody else; for the admin, for another sub_admin and for an unknown id
\* it is refused and no password changes.
C31_SubAdminResetScope ==
    [][C31_Step]_vars

\* the sub_admin was refused the reset of the other sub_admin's password
\* after it had reset its own
C31_Witness ==
    /\ resp.op = "reset_password" /\ resp.code = 403
    /\ resp.caller = 2 /\ resp.userId = 3
    /\ users[2].password = Hash("pw2")
    /\ users[3].password = Hash("pw1")

C35_Step ==
    \A c \in tokens, id \in 1..Len(StaffUsers), st \in {"active", "disabled"} :
        (users[c].role = "sub_admin" /\ SetUserStatus(c, <<id>>, st, "spam")) =>
            IF users[id].role \in {"merchant", "customer"}
            THEN resp'.code = 200 /\ users'[id].status = st
            ELSE resp'.code # 200 /\ users' = users /\ logs' = logs

\* C35: a status change requested by a sub_admin is applied when the target
\* is a merchant or a customer, and is refused, changing no user and writing
\* no audit entry, when the target is the admin, another sub_admin or the
\* requesting sub_admin itself.
C35_SubAdminStatusScope ==
    [][C35_Step]_vars

\* C32: a customer or merchant who asks /uploads/:filename for the file of
\* an existing asset that it neither owns nor receives gets the 404 that a
\* file name of no asset gets.
C32_UniformNotFound ==
    (/\ resp.op = "uploads_file"
     /\ users[resp.caller].role \in {"customer", "merchant"}
     /\ \E i \in AssetIds : assets[i].file_name = resp.filename
     /\ \A i \in AssetIds :
           assets[i].file_name = resp.filename =>
               assets[i].user_id # resp.caller /\ assets[i].merchant_id # resp.caller)
        => resp.code = 404

C33_Step ==
    /\ \A c \in tokens, id \in AssetIds, ps \in {"received", "processing", "shipped"} :
           (/\ users[c].role = "merchant"
            /\ assets[id].merchant_id = c
            /\ assets[id].status = "active"
            /\ \E s \in Slots : StatusStart(s, c, id, ps)) =>
               /\ Len(inflight') = Len(inflight) + 1
               /\ inflight'[Len(inflight')] =
                      [op |-> "set_status", caller |-> c, id |-> id, process_status |-> ps]
    /\ \A s \in DOMAIN inflight :
           (inflight[s].op = "set_status" /\ StatusCommit(s)) =>
               /\ resp'.code = 200
               /\ DOMAIN assets' = DOMAIN assets
               /\ assets'[inflight[s].id].process_status = inflight[s].process_status
               /\ \A i \in AssetIds :
                      [assets'[i] EXCEPT !.process_status = assets[i].process_status]
                          = assets[i]
               /\ UNCHANGED <<users, disk, ledger>>

\* C33: a set-process-status request of the recipient merchant on an active
\* asset is taken to the UPDATE whatever the current and the requested value
\* (received, processing or shipped, the same value included), is answered
\* 200, writes the requested value and leaves every other field of every
\* asset as it was.
C33_AnyStatusToAnyStatus ==
    [][C33_Step]_vars

\* a request for "received" answered 200 on an asset that shows it
C33_Witness ==
    /\ resp.op = "set_status"
    /\ resp.code = 200
    /\ Len(logs) = 2
    /\ assets[resp.id].process_status = "received"
    /\ assets[resp.id].status = "active"

C34_Step ==
    /\ Len(assets') >= Len(assets)
    /\ \A i \in AssetIds :
           /\ assets'[i].user_id = assets[i].user_id
           /\ assets'[i].merchant_id = assets[i].merchant_id
           /\ assets'[i].original_name = assets[i].original_name
           /\ assets'[i].file_name = assets[i].file_name
           /\ assets'[i].file_path = assets[i].file_path
           /\ assets'[i].file_size = assets[i].file_size
           /\ assets'[i].file_type = assets[i].file_type
           /\ assets'[i].mime_type = assets[i].mime_type
           /\ assets'[i].upload_time = assets[i].upload_time

\* C34: no step removes a row of file_uploads, and no step changes a row's
\* user_id, merchant_id, original_name, file_name, file_path, file_size,
\* file_type, mime_type or upload_time once the upload has inserted it.
C34_RowsKeptAndFixed ==
    [][C34_Step]_vars

\* an uploaded row that was edited, is soft-deleted and now older than its
\* upload
C34_Witness ==
    \E i \in AssetIds :
        /\ assets[i].edit_count > 0
        /\ assets[i].status = "deleted"
        /\ assets[i].upload_time < now

C36_Step ==
    /\ Len(users') >= Len(users)
    /\ \A i \in 1..Len(users') :
           users'[i].role = "admin" <=> (i \in UserIds /\ users[i].role = "admin")
    /\ \A n \in {"sub", "ua"} :
           (Register(n, "pw1") /\ users' # users) =>
               /\ Len(users') = Len(users) + 1
               /\ users'[Len(users')].role = "customer"
    /\ \A c \in tokens, n \in {"sub", "ua"},
          r \in {"customer", "merchant", "sub_admin", "admin"} :
           CreateUser(c, n, "pw1", r) =>
               /\ users' # users =>
                      /\ Len(users') = Len(users) + 1
                      /\ users'[Len(users')].role = r
                      /\ r \in {"customer", "merchant", "sub_admin"}
               /\ (users[c].role = "sub_admin" /\ r = "sub_admin") =>
                      /\ resp'.code = 403
                      /\ UNCHANGED <<users, logs>>

\* C36: no step adds a user with role admin, takes the role from one or
\* gives it to another; a registration that adds a user adds a customer, a
\* create-user request that adds one adds the customer, merchant or sub_admin
\* it asked for, and a sub_admin's request for a sub_admin is answered 403
\* with no user and no audit entry added.
C36_AdminSetFixed ==
    [][C36_Step]_vars

\* the admin created a second sub_admin
C36_Witness ==
    /\ resp.op = "create_user"
    /\ resp.code = 201
    /\ Len(users) = 3
    /\ users[3].role = "sub_admin"

C37_Step ==
    \A s \in DOMAIN inflight :
        /\ (/\ inflight[s].op = "delete"
            /\ assets[inflight[s].id].status = "deleted"
            /\ DeleteCommit(s)) =>
               resp'.code # 200 /\ logs' = logs
        /\ (/\ inflight[s].op = "restore"
            /\ assets[inflight[s].id].status = "active"
            /\ RestoreCommit(s)) =>
               resp'.code # 200 /\ logs' = logs

\* C37: a soft-delete whose UPDATE comes after another request's UPDATE has
\* already deleted the asset is not answered with success and appends no
\* audit entry, and likewise a restore that finds the asset already active:
\* of two interleaved requests only one succeeds.
C37_OneOfTwoSucceeds ==
    [][C37_Step]_vars

C38_Step ==
    \A k \in (Len(ledger) + 1)..Len(ledger') :
        ledger'[k].status = "success" =>
            /\ resp'.code = 200
            /\ resp'.op = "download" => resp'.sent
            /\ resp'.op \in {"download_all", "download_selected"} =>
                   \/ resp'.zip
                   \/ ledger'[k].file_id \in resp'.added

\* C38: a download_status row with status success is appended only by a
\* step that sent the file, or ended the archive, successfully; the
\* single-file path of download-selected appends none when sending the file
\* fails.
C38_SuccessRowAfterSend ==
    [][C38_Step]_vars

\* C39: a merchant's request for /uploads/:filename that is answered with
\* the file is for the file of an active asset: the content of a deleted
\* asset is never delivered to a merchant.
C39_NoDeletedContentToMerchant ==
    (/\ resp.op = "uploads_file"
     /\ resp.code = 200
     /\ users[resp.caller].role = "merchant")
        => \A i \in resp.served : assets[i].status = "active"

C40_Step ==
    \A s \in DOMAIN inflight :
        (inflight[s].op = "upload" /\ UploadInsertOr(s, FALSE)) =>
            /\ assets' = assets
            /\ \A j \in DOMAIN inflight[s].saved :
                   /\ inflight[s].saved[j] \in 1..Len(assets')
                   /\ assets'[inflight[s].saved[j]].file_name =
                          inflight[s].files[j].filename
            /\ resp'.op = "upload"
            /\ resp'.code = 500
            /\ logs' = logs
            /\ Len(inflight') = Len(inflight) - 1

\* C40: when the INSERT of the k-th file of an accepted upload fails, the
\* k-1 rows the request has inserted stay in file_uploads, the response is
\* 500, and the request ends without an upload audit entry.
C40_PartialRowsRemain ==
    [][C40_Step]_vars

\* the second INSERT of a two-file upload failed and the first row is there
C40_Witness ==
    /\ resp.op = "upload"
    /\ resp.code = 500
    /\ Len(resp.ids) = 1
    /\ resp.ids[1] \in AssetIds
    /\ Cardinality(resp.kept) = 2
    /\ logs = <<>>
====
